---- MODULE Spec2Model ----
(***************************************************************************)
(* ServerCommandProxy (ServerComandProxy.py): a proxy object holding the   *)
(* connection configuration of a PaperCut application server, a context    *)
(* manager protocol (__enter__/__exit__) that creates an xmlrpc ServerProxy*)
(* and a catalogue of methods that forward their arguments to a remote     *)
(* procedure of the "api" namespace.                                       *)
(*                                                                         *)
(* Python values are modelled by the text of their repr(): None is "None", *)
(* the integer 0 is "0", the string 'NONE' is "'NONE'", the type object    *)
(* int is "<class 'int'>".  Python objects with identity (_Method,         *)
(* _GeneratorContextManager, NoneType) are records [type, handle].         *)
(***************************************************************************)
EXTENDS Integers, Sequences, FiniteSets, TLC

\* The number of ServerProxy objects one behaviour creates.
MaxHandles == 2
\* The number of forwarding calls one behaviour issues.
MaxCalls == 2
\* The interpreter's recursion limit (sys.getrecursionlimit()), scaled down.
RecursionLimit == 3

\* The null sentinel, repr(None).
None == "None"
\* Marks a parameter that has no default value in the def.
Required == "<required>"

\* def addAdminAccessGroup(self, authToken, groupName): return self.api.addAdminAccessGroup(authToken, groupName)
addAdminAccessGroup ==
    [name |-> "addAdminAccessGroup",
     params |-> <<"authToken", "groupName">>,
     defaults |-> <<Required, Required>>,
     target |-> "self.api", callee |-> "addAdminAccessGroup",
     wire |-> <<"authToken", "groupName">>]

\* def addAdminAccessUser(self, authToken, userName): return self.api.addAdminAccessUser(authToken, userName)
addAdminAccessUser ==
    [name |-> "addAdminAccessUser",
     params |-> <<"authToken", "userName">>,
     defaults |-> <<Required, Required>>,
     target |-> "self.api", callee |-> "addAdminAccessUser",
     wire |-> <<"authToken", "userName">>]

\* def addNewGroup(self, authToken, groupName): return self.api.addNewGroup(authToken, groupName)
addNewGroup ==
    [name |-> "addNewGroup",
     params |-> <<"authToken", "groupName">>,
     defaults |-> <<Required, Required>>,
     target |-> "self.api", callee |-> "addNewGroup",
     wire |-> <<"authToken", "groupName">>]

\* def addNewInternalUser(self, authToken, userName, password, fullName=None, email=None, cardId=None, pin=None): return self.api.addNewInternalUser(authToken, userName, password, fullName, email, cardId, pin)
addNewInternalUser ==
    [name |-> "addNewInternalUser",
     params |-> <<"authToken", "userName", "password", "fullName", "email", "cardId", "pin">>,
     defaults |-> <<Required, Required, Required, None, None, None, None>>,
     target |-> "self.api", callee |-> "addNewInternalUser",
     wire |-> <<"authToken", "userName", "password", "fullName", "email", "cardId", "pin">>]

\* def addNewSharedAccount(self, authToken, sharedAccountName): return self.api.addNewSharedAccount(authToken, sharedAccountName)
addNewSharedAccount ==
    [name |-> "addNewSharedAccount",
     params |-> <<"authToken", "sharedAccountName">>,
     defaults |-> <<Required, Required>>,
     target |-> "self.api", callee |-> "addNewSharedAccount",
     wire |-> <<"authToken", "sharedAccountName">>]

\* def addNewUser(self, authToken, userName): return self.api.addNewUser(authToken, userName)
addNewUser ==
    [name |-> "addNewUser",
     params |-> <<"authToken", "userName">>,
     defaults |-> <<Required, Required>>,
     target |-> "self.api", callee |-> "addNewUser",
     wire |-> <<"authToken", "userName">>]

\* def addNewUsers(self, authToken): return self.api.addNewUsers(authToken)
addNewUsers ==
    [name |-> "addNewUsers",
     params |-> <<"authToken">>,
     defaults |-> <<Required>>,
     target |-> "self.api", callee |-> "addNewUsers",
     wire |-> <<"authToken">>]

\* def addPrinterAccessGroup(self, authToken, serverName, printerName, groupName): return self.api.addPrinterAccessGroup(authToken, serverName, printerName, groupName)
addPrinterAccessGroup ==
    [name |-> "addPrinterAccessGroup",
     params |-> <<"authToken", "serverName", "printerName", "groupName">>,
     defaults |-> <<Required, Required, Required, Required>>,
     target |-> "self.api", callee |-> "addPrinterAccessGroup",
     wire |-> <<"authToken", "serverName", "printerName", "groupName">>]

\* def addPrinterGroup(self, authToken, serverName, printerName, printerGroupName): return self.api.addPrinterGroup(authToken, serverName, printerName, printerGroupName)
addPrinterGroup ==
    [name |-> "addPrinterGroup",
     params |-> <<"authToken", "serverName", "printerName", "printerGroupName">>,
     defaults |-> <<Required, Required, Required, Required>>,
     target |-> "self.api", callee |-> "addPrinterGroup",
     wire |-> <<"authToken", "serverName", "printerName", "printerGroupName">>]

\* def addSharedAccountAccessGroup(self, authToken, sharedAccountName, groupName): return self.api.addSharedAccountAccessGroup(authToken, sharedAccountName, groupName)
addSharedAccountAccessGroup ==
    [name |-> "addSharedAccountAccessGroup",
     params |-> <<"authToken", "sharedAccountName", "groupName">>,
     defaults |-> <<Required, Required, Required>>,
     target |-> "self.api", callee |-> "addSharedAccountAccessGroup",
     wire |-> <<"authToken", "sharedAccountName", "groupName">>]

\* def addSharedAccountAccessUser(self, authToken, sharedAccountName, userName): return self.api.addSharedAccountAccessUser(authToken, sharedAccountName, userName)
addSharedAccountAccessUser ==
    [name |-> "addSharedAccountAccessUser",
     params |-> <<"authToken", "sharedAccountName", "userName">>,
     defaults |-> <<Required, Required, Required>>,
     target |-> "self.api", callee |-> "addSharedAccountAccessUser",
     wire |-> <<"authToken", "sharedAccountName", "userName">>]

\* def addUserToGroup(self, authToken, userName, groupName): return self.api.addUserToGroup(authToken, userName, groupName)
addUserToGroup ==
    [name |-> "addUserToGroup",
     params |-> <<"authToken", "userName", "groupName">>,
     defaults |-> <<Required, Required, Required>>,
     target |-> "self.api", callee |-> "addUserToGroup",
     wire |-> <<"authToken", "userName", "groupName">>]

\* def adjustSharedAccountAccountBalance(self, authToken, accountName, adjustment, comment=None): return self.api.adjustSharedAccountAccountBalance(authToken, accountName, adjustment, comment)
adjustSharedAccountAccountBalance ==
    [name |-> "adjustSharedAccountAccountBalance",
     params |-> <<"authToken", "accountName", "adjustment", "comment">>,
     defaults |-> <<Required, Required, Required, None>>,
     target |-> "self.api", callee |-> "adjustSharedAccountAccountBalance",
     wire |-> <<"authToken", "accountName", "adjustment", "comment">>]

\* def adjustUserAccountBalance(self, authToken, userName, adjustment, accountName=None, comment=None): return self.api.adjustUserAccountBalance(authToken, userName, adjustment, comment, accountName)
adjustUserAccountBalance ==
    [name |-> "adjustUserAccountBalance",
     params |-> <<"authToken", "userName", "adjustment", "accountName", "comment">>,
     defaults |-> <<Required, Required, Required, None, None>>,
     target |-> "self.api", callee |-> "adjustUserAccountBalance",
     wire |-> <<"authToken", "userName", "adjustment", "comment", "accountName">>]

\* def adjustUserAccountBalanceByCardNumber(self, authToken, cardNumber, adjustment, comment=None, accountName=None): return self.api.adjustUserAccountBalanceByCardNumber(authToken, cardNumber, adjustment, comment, accountName)
adjustUserAccountBalanceByCardNumber ==
    [name |-> "adjustUserAccountBalanceByCardNumber",
     params |-> <<"authToken", "cardNumber", "adjustment", "comment", "accountName">>,
     defaults |-> <<Required, Required, Required, None, None>>,
     target |-> "self.api", callee |-> "adjustUserAccountBalanceByCardNumber",
     wire |-> <<"authToken", "cardNumber", "adjustment", "comment", "accountName">>]

\* def adjustUserAccountBalanceByGroup(self, authToken, group, adjustment, accountName=None, comment=None): return self.api.adjustUserAccountBalanceByGroup(authToken, accountName, group, adjustment, comment)
adjustUserAccountBalanceByGroup ==
    [name |-> "adjustUserAccountBalanceByGroup",
     params |-> <<"authToken", "group", "adjustment", "accountName", "comment">>,
     defaults |-> <<Required, Required, Required, None, None>>,
     target |-> "self.api", callee |-> "adjustUserAccountBalanceByGroup",
     wire |-> <<"authToken", "accountName", "group", "adjustment", "comment">>]

\* def adjustUserAccountBalanceByGroupUpTo(self, authToken, accountName, adjustment, comment, group, limit=1000): return self.api.adjustUserAccountBalanceByGroupUpTo(authToken, accountName, adjustment, group, comment, limit)
adjustUserAccountBalanceByGroupUpTo ==
    [name |-> "adjustUserAccountBalanceByGroupUpTo",
     params |-> <<"authToken", "accountName", "adjustment", "comment", "group", "limit">>,
     defaults |-> <<Required, Required, Required, Required, Required, "1000">>,
     target |-> "self.api", callee |-> "adjustUserAccountBalanceByGroupUpTo",
     wire |-> <<"authToken", "accountName", "adjustment", "group", "comment", "limit">>]

\* def adjustUserAccountBalanceIfAvailable(self, authToken, userName, adjustment, comment=None): return self.api.adjustUserAccountBalanceIfAvailable(authToken, userName, adjustment, comment)
adjustUserAccountBalanceIfAvailable ==
    [name |-> "adjustUserAccountBalanceIfAvailable",
     params |-> <<"authToken", "userName", "adjustment", "comment">>,
     defaults |-> <<Required, Required, Required, None>>,
     target |-> "self.api", callee |-> "adjustUserAccountBalanceIfAvailable",
     wire |-> <<"authToken", "userName", "adjustment", "comment">>]

\* def adjustUserAccountBalanceIfAvailableLeaveRemaining(self, authToken, userName, adjustment, leaveRemaining, comment=None, accountName=None): return self.api.adjustUserAccountBalanceIfAvailableLeaveRemaining(authToken, userName, adjustment, leaveRemaining, comment, accountName)
adjustUserAccountBalanceIfAvailableLeaveRemaining ==
    [name |-> "adjustUserAccountBalanceIfAvailableLeaveRemaining",
     params |-> <<"authToken", "userName", "adjustment", "leaveRemaining", "comment", "accountName">>,
     defaults |-> <<Required, Required, Required, Required, None, None>>,
     target |-> "self.api", callee |-> "adjustUserAccountBalanceIfAvailableLeaveRemaining",
     wire |-> <<"authToken", "userName", "adjustment", "leaveRemaining", "comment", "accountName">>]

\* def applyDeviceSettings(self, authToken, deviceName): return self.api.applyDeviceSettings(authToken, deviceName)
applyDeviceSettings ==
    [name |-> "applyDeviceSettings",
     params |-> <<"authToken", "deviceName">>,
     defaults |-> <<Required, Required>>,
     target |-> "self.api", callee |-> "applyDeviceSettings",
     wire |-> <<"authToken", "deviceName">>]

\* def batchImportInternalUsers(self, authToken, importFile, overwriteExistingPasswords=False, overwriteExistingPINs=False, emailUserOnCreation=False): return self.api.batchImportInternalUsers(authToken, importFile, overwriteExistingPasswords, overwriteExistingPINs, emailUserOnCreation)
batchImportInternalUsers ==
    [name |-> "batchImportInternalUsers",
     params |-> <<"authToken", "importFile", "overwriteExistingPasswords", "overwriteExistingPINs", "emailUserOnCreation">>,
     defaults |-> <<Required, Required, "False", "False", "False">>,
     target |-> "self.api", callee |-> "batchImportInternalUsers",
     wire |-> <<"authToken", "importFile", "overwriteExistingPasswords", "overwriteExistingPINs", "emailUserOnCreation">>]

\* def batchImportPrinters(self, authToken, importFile): return self.api.batchImportPrinters(authToken, importFile)
batchImportPrinters ==
    [name |-> "batchImportPrinters",
     params |-> <<"authToken", "importFile">>,
     defaults |-> <<Required, Required>>,
     target |-> "self.api", callee |-> "batchImportPrinters",
     wire |-> <<"authToken", "importFile">>]

\* def batchImportSharedAccounts(self, authToken, importFile, test=False, deleteNonExistentAccounts=False): return self.api.batchImportSharedAccounts(authToken, importFile, test, deleteNonExistentAccounts)
batchImportSharedAccounts ==
    [name |-> "batchImportSharedAccounts",
     params |-> <<"authToken", "importFile", "test", "deleteNonExistentAccounts">>,
     defaults |-> <<Required, Required, "False", "False">>,
     target |-> "self.api", callee |-> "batchImportSharedAccounts",
     wire |-> <<"authToken", "importFile", "test", "deleteNonExistentAccounts">>]

\* def batchImportUserCardIdNumbers(self, authToken, importFile, overwriteExistingPINs=False): return self.api.batchImportUserCardIdNumbers(authToken, importFile, overwriteExistingPINs)
batchImportUserCardIdNumbers ==
    [name |-> "batchImportUserCardIdNumbers",
     params |-> <<"authToken", "importFile", "overwriteExistingPINs">>,
     defaults |-> <<Required, Required, "False">>,
     target |-> "self.api", callee |-> "batchImportUserCardIdNumbers",
     wire |-> <<"authToken", "importFile", "overwriteExistingPINs">>]

\* def batchImportUsers(self, authToken, importFile, createNewUsers): return self.api.batchImportUsers(authToken, importFile, createNewUsers)
batchImportUsers ==
    [name |-> "batchImportUsers",
     params |-> <<"authToken", "importFile", "createNewUsers">>,
     defaults |-> <<Required, Required, Required>>,
     target |-> "self.api", callee |-> "batchImportUsers",
     wire |-> <<"authToken", "importFile", "createNewUsers">>]

\* def changeInternalAdminPassword(self, authToken, newPassword): return self.api.changeInternalAdminPassword(authToken, newPassword)
changeInternalAdminPassword ==
    [name |-> "changeInternalAdminPassword",
     params |-> <<"authToken", "newPassword">>,
     defaults |-> <<Required, Required>>,
     target |-> "self.api", callee |-> "changeInternalAdminPassword",
     wire |-> <<"authToken", "newPassword">>]

\* def clearUserAdvancedPrinterSettings(self, authToken, userName): return self.api.clearUserAdvancedPrinterSettings(authToken, userName)
clearUserAdvancedPrinterSettings ==
    [name |-> "clearUserAdvancedPrinterSettings",
     params |-> <<"authToken", "userName">>,
     defaults |-> <<Required, Required>>,
     target |-> "self.api", callee |-> "clearUserAdvancedPrinterSettings",
     wire |-> <<"authToken", "userName">>]

\* def createUserClientAccountsFile(self, authToken): return self.api.createUserClientAccountsFile(authToken)
createUserClientAccountsFile ==
    [name |-> "createUserClientAccountsFile",
     params |-> <<"authToken">>,
     defaults |-> <<Required>>,
     target |-> "self.api", callee |-> "createUserClientAccountsFile",
     wire |-> <<"authToken">>]

\* def deleteExistingSharedAccount(self, authToken, sharedAccountName): return self.api.deleteExistingSharedAccount(authToken, sharedAccountName)
deleteExistingSharedAccount ==
    [name |-> "deleteExistingSharedAccount",
     params |-> <<"authToken", "sharedAccountName">>,
     defaults |-> <<Required, Required>>,
     target |-> "self.api", callee |-> "deleteExistingSharedAccount",
     wire |-> <<"authToken", "sharedAccountName">>]

\* def deleteExistingUser(self, authToken, userName, redactUserData=False): return self.api.deleteExistingUser(authToken, userName, redactUserData)
deleteExistingUser ==
    [name |-> "deleteExistingUser",
     params |-> <<"authToken", "userName", "redactUserData">>,
     defaults |-> <<Required, Required, "False">>,
     target |-> "self.api", callee |-> "deleteExistingUser",
     wire |-> <<"authToken", "userName", "redactUserData">>]

\* def deletePrinter(self, authToken, serverName, printerName): return self.api.deletePrinter(authToken, serverName, printerName)
deletePrinter ==
    [name |-> "deletePrinter",
     params |-> <<"authToken", "serverName", "printerName">>,
     defaults |-> <<Required, Required, Required>>,
     target |-> "self.api", callee |-> "deletePrinter",
     wire |-> <<"authToken", "serverName", "printerName">>]

\* def disableDeviceSnmpv3(self, authToken, deviceName): return self.api.disableDeviceSnmpv3(authToken, deviceName)
disableDeviceSnmpv3 ==
    [name |-> "disableDeviceSnmpv3",
     params |-> <<"authToken", "deviceName">>,
     defaults |-> <<Required, Required>>,
     target |-> "self.api", callee |-> "disableDeviceSnmpv3",
     wire |-> <<"authToken", "deviceName">>]

\* def disablePrinter(self, authToken, serverName, printerName, disableMins=int): return self.api.disablePrinter(authToken, serverName, printerName, disableMins)
disablePrinter ==
    [name |-> "disablePrinter",
     params |-> <<"authToken", "serverName", "printerName", "disableMins">>,
     defaults |-> <<Required, Required, Required, "<class 'int'>">>,
     target |-> "self.api", callee |-> "disablePrinter",
     wire |-> <<"authToken", "serverName", "printerName", "disableMins">>]

\* def disablePrinterSnmpv3(self, authToken, serverName, printerName): return self.api.disablePrinterSnmpv3(authToken, serverName, printerName)
disablePrinterSnmpv3 ==
    [name |-> "disablePrinterSnmpv3",
     params |-> <<"authToken", "serverName", "printerName">>,
     defaults |-> <<Required, Required, Required>>,
     target |-> "self.api", callee |-> "disablePrinterSnmpv3",
     wire |-> <<"authToken", "serverName", "printerName">>]

\* def disablePrintingForUser(self, authToken, userName, disableMins): return self.api.disablePrintingForUser(authToken, userName, disableMins)
disablePrintingForUser ==
    [name |-> "disablePrintingForUser",
     params |-> <<"authToken", "userName", "disableMins">>,
     defaults |-> <<Required, Required, Required>>,
     target |-> "self.api", callee |-> "disablePrintingForUser",
     wire |-> <<"authToken", "userName", "disableMins">>]

\* def disableSharedAccount(self, authToken, sharedAccountName, disableMins): return self.api.disableSharedAccount(authToken, sharedAccountName, disableMins)
disableSharedAccount ==
    [name |-> "disableSharedAccount",
     params |-> <<"authToken", "sharedAccountName", "disableMins">>,
     defaults |-> <<Required, Required, Required>>,
     target |-> "self.api", callee |-> "disableSharedAccount",
     wire |-> <<"authToken", "sharedAccountName", "disableMins">>]

\* def enableDeviceSnmpv3(self, authToken, authPass, authProto, context, deviceName, privPass, privProto, userName): return self.api.enableDeviceSnmpv3(authToken, authPass, authProto, context, deviceName, privPass, privProto, userName)
enableDeviceSnmpv3 ==
    [name |-> "enableDeviceSnmpv3",
     params |-> <<"authToken", "authPass", "authProto", "context", "deviceName", "privPass", "privProto", "userName">>,
     defaults |-> <<Required, Required, Required, Required, Required, Required, Required, Required>>,
     target |-> "self.api", callee |-> "enableDeviceSnmpv3",
     wire |-> <<"authToken", "authPass", "authProto", "context", "deviceName", "privPass", "privProto", "userName">>]

\* def enablePrinter(self, authToken, serverName, printerName): return self.api.enablePrinter(authToken, serverName, printerName)
enablePrinter ==
    [name |-> "enablePrinter",
     params |-> <<"authToken", "serverName", "printerName">>,
     defaults |-> <<Required, Required, Required>>,
     target |-> "self.api", callee |-> "enablePrinter",
     wire |-> <<"authToken", "serverName", "printerName">>]

\* def enablePrinterSnmpv3(self, authToken, serverName, printerName, context, userName, authPass, privPass, authProto, privProto): return self.api.enablePrinterSnmpv3(authToken, serverName, printerName, context, userName, authPass, privPass, authProto, privProto)
enablePrinterSnmpv3 ==
    [name |-> "enablePrinterSnmpv3",
     params |-> <<"authToken", "serverName", "printerName", "context", "userName", "authPass", "privPass", "authProto", "privProto">>,
     defaults |-> <<Required, Required, Required, Required, Required, Required, Required, Required, Required>>,
     target |-> "self.api", callee |-> "enablePrinterSnmpv3",
     wire |-> <<"authToken", "serverName", "printerName", "context", "userName", "authPass", "privPass", "authProto", "privProto">>]

\* def exportUserDataHistory(self, authToken, userName, saveLocation): return self.api.exportUserDataHistory(authToken, userName, saveLocation)
exportUserDataHistory ==
    [name |-> "exportUserDataHistory",
     params |-> <<"authToken", "userName", "saveLocation">>,
     defaults |-> <<Required, Required, Required>>,
     target |-> "self.api", callee |-> "exportUserDataHistory",
     wire |-> <<"authToken", "userName", "saveLocation">>]

\* def generateAdHocReport(self, authToken, reportType, dataParams, exportTypeExt, reportTitle, saveLocation): return self.api.generateAdHocReport(authToken, reportType, dataParams, exportTypeExt, reportTitle, saveLocation)
generateAdHocReport ==
    [name |-> "generateAdHocReport",
     params |-> <<"authToken", "reportType", "dataParams", "exportTypeExt", "reportTitle", "saveLocation">>,
     defaults |-> <<Required, Required, Required, Required, Required, Required>>,
     target |-> "self.api", callee |-> "generateAdHocReport",
     wire |-> <<"authToken", "reportType", "dataParams", "exportTypeExt", "reportTitle", "saveLocation">>]

\* def generateScheduledReport(self, authToken, reportTitle, saveLocation): return self.api.generateScheduledReport(authToken, reportTitle, saveLocation)
generateScheduledReport ==
    [name |-> "generateScheduledReport",
     params |-> <<"authToken", "reportTitle", "saveLocation">>,
     defaults |-> <<Required, Required, Required>>,
     target |-> "self.api", callee |-> "generateScheduledReport",
     wire |-> <<"authToken", "reportTitle", "saveLocation">>]

\* def getConfigValue(self, authToken, configName): return self.api.getConfigValue(authToken, configName)
getConfigValue ==
    [name |-> "getConfigValue",
     params |-> <<"authToken", "configName">>,
     defaults |-> <<Required, Required>>,
     target |-> "self.api", callee |-> "getConfigValue",
     wire |-> <<"authToken", "configName">>]

\* def getDeviceSnmpv3(self, authToken, deviceName): return self.api.getDeviceSnmpv3(authToken, deviceName)
getDeviceSnmpv3 ==
    [name |-> "getDeviceSnmpv3",
     params |-> <<"authToken", "deviceName">>,
     defaults |-> <<Required, Required>>,
     target |-> "self.api", callee |-> "getDeviceSnmpv3",
     wire |-> <<"authToken", "deviceName">>]

\* def getGroupMembers(self, authToken, groupName, offset=0, limit=1000): return self.api.getGroupMembers(authToken, groupName, offset, limit)
getGroupMembers ==
    [name |-> "getGroupMembers",
     params |-> <<"authToken", "groupName", "offset", "limit">>,
     defaults |-> <<Required, Required, "0", "1000">>,
     target |-> "self.api", callee |-> "getGroupMembers",
     wire |-> <<"authToken", "groupName", "offset", "limit">>]

\* def getGroupQuota(self, authToken, groupName): return self.api.getGroupQuota(authToken, groupName)
getGroupQuota ==
    [name |-> "getGroupQuota",
     params |-> <<"authToken", "groupName">>,
     defaults |-> <<Required, Required>>,
     target |-> "self.api", callee |-> "getGroupQuota",
     wire |-> <<"authToken", "groupName">>]

\* def getPrinterCostSimple(self, authToken, serverName, printerName): return self.api.getPrinterCostSimple(authToken, serverName, printerName)
getPrinterCostSimple ==
    [name |-> "getPrinterCostSimple",
     params |-> <<"authToken", "serverName", "printerName">>,
     defaults |-> <<Required, Required, Required>>,
     target |-> "self.api", callee |-> "getPrinterCostSimple",
     wire |-> <<"authToken", "serverName", "printerName">>]

\* def getPrinterProperties(self, authToken, serverName, printerName, propertyNames=dict[str, any] | list[str]): return self.api.getPrinterProperties(authToken, serverName, printerName, propertyNames)
getPrinterProperties ==
    [name |-> "getPrinterProperties",
     params |-> <<"authToken", "serverName", "printerName", "propertyNames">>,
     defaults |-> <<Required, Required, Required, "dict[str, any] | list[str]">>,
     target |-> "self.api", callee |-> "getPrinterProperties",
     wire |-> <<"authToken", "serverName", "printerName", "propertyNames">>]

\* def getPrinterProperty(self, authToken, serverName, printerName, propertyName): return self.api.getPrinterProperty(authToken, serverName, printerName, propertyName)
getPrinterProperty ==
    [name |-> "getPrinterProperty",
     params |-> <<"authToken", "serverName", "printerName", "propertyName">>,
     defaults |-> <<Required, Required, Required, Required>>,
     target |-> "self.api", callee |-> "getPrinterProperty",
     wire |-> <<"authToken", "serverName", "printerName", "propertyName">>]

\* def getPrinterSnmpv3(self, authToken, serverName, printerName): return self.api.getPrinterSnmpv3(authToken, serverName, printerName)
getPrinterSnmpv3 ==
    [name |-> "getPrinterSnmpv3",
     params |-> <<"authToken", "serverName", "printerName">>,
     defaults |-> <<Required, Required, Required>>,
     target |-> "self.api", callee |-> "getPrinterSnmpv3",
     wire |-> <<"authToken", "serverName", "printerName">>]

\* def getSharedAccountAccountBalance(self, authToken, accountName): return self.api.getSharedAccountAccountBalance(authToken, accountName)
getSharedAccountAccountBalance ==
    [name |-> "getSharedAccountAccountBalance",
     params |-> <<"authToken", "accountName">>,
     defaults |-> <<Required, Required>>,
     target |-> "self.api", callee |-> "getSharedAccountAccountBalance",
     wire |-> <<"authToken", "accountName">>]

\* def getSharedAccountOverdraftMode(self, authToken, accountName): return self.api.getSharedAccountOverdraftMode(authToken, accountName)
getSharedAccountOverdraftMode ==
    [name |-> "getSharedAccountOverdraftMode",
     params |-> <<"authToken", "accountName">>,
     defaults |-> <<Required, Required>>,
     target |-> "self.api", callee |-> "getSharedAccountOverdraftMode",
     wire |-> <<"authToken", "accountName">>]

\* def getSharedAccountProperties(self, authToken, sharedAccountName, propertyNames): return self.api.getSharedAccountProperties(authToken, sharedAccountName, propertyNames)
getSharedAccountProperties ==
    [name |-> "getSharedAccountProperties",
     params |-> <<"authToken", "sharedAccountName", "propertyNames">>,
     defaults |-> <<Required, Required, Required>>,
     target |-> "self.api", callee |-> "getSharedAccountProperties",
     wire |-> <<"authToken", "sharedAccountName", "propertyNames">>]

\* def getSharedAccountProperty(self, authToken, sharedAccountName, propertyName): return self.api.getSharedAccountProperty(authToken, sharedAccountName, propertyName)
getSharedAccountProperty ==
    [name |-> "getSharedAccountProperty",
     params |-> <<"authToken", "sharedAccountName", "propertyName">>,
     defaults |-> <<Required, Required, Required>>,
     target |-> "self.api", callee |-> "getSharedAccountProperty",
     wire |-> <<"authToken", "sharedAccountName", "propertyName">>]

\* def getTaskStatus(self, authToken): return self.api.getTaskStatus(authToken)
getTaskStatus ==
    [name |-> "getTaskStatus",
     params |-> <<"authToken">>,
     defaults |-> <<Required>>,
     target |-> "self.api", callee |-> "getTaskStatus",
     wire |-> <<"authToken">>]

\* def getTotalUsers(self, authToken): return self.api.getTotalUsers(authToken)
getTotalUsers ==
    [name |-> "getTotalUsers",
     params |-> <<"authToken">>,
     defaults |-> <<Required>>,
     target |-> "self.api", callee |-> "getTotalUsers",
     wire |-> <<"authToken">>]

\* def getUserAccountBalance(self, authToken, userName, accountName=None): return self.api.getUserAccountBalance(authToken, userName, accountName)
getUserAccountBalance ==
    [name |-> "getUserAccountBalance",
     params |-> <<"authToken", "userName", "accountName">>,
     defaults |-> <<Required, Required, None>>,
     target |-> "self.api", callee |-> "getUserAccountBalance",
     wire |-> <<"authToken", "userName", "accountName">>]

\* def getUserGroups(self, authToken, userName): return self.api.getUserGroups(authToken, userName)
getUserGroups ==
    [name |-> "getUserGroups",
     params |-> <<"authToken", "userName">>,
     defaults |-> <<Required, Required>>,
     target |-> "self.api", callee |-> "getUserGroups",
     wire |-> <<"authToken", "userName">>]

\* def getUserOverdraftMode(self, authToken, userName): return self.api.getUserOverdraftMode(authToken, userName)
getUserOverdraftMode ==
    [name |-> "getUserOverdraftMode",
     params |-> <<"authToken", "userName">>,
     defaults |-> <<Required, Required>>,
     target |-> "self.api", callee |-> "getUserOverdraftMode",
     wire |-> <<"authToken", "userName">>]

\* def getUserProperties(self, authToken, userName, propertyNames): return self.api.getUserProperties(authToken, userName, propertyNames)
getUserProperties ==
    [name |-> "getUserProperties",
     params |-> <<"authToken", "userName", "propertyNames">>,
     defaults |-> <<Required, Required, Required>>,
     target |-> "self.api", callee |-> "getUserProperties",
     wire |-> <<"authToken", "userName", "propertyNames">>]

\* def getUserProperty(self, authToken, userName, propertyName): return self.api.getUserProperty(authToken, userName, propertyName)
getUserProperty ==
    [name |-> "getUserProperty",
     params |-> <<"authToken", "userName", "propertyName">>,
     defaults |-> <<Required, Required, Required>>,
     target |-> "self.api", callee |-> "getUserProperty",
     wire |-> <<"authToken", "userName", "propertyName">>]

\* def installLicense(self, authToken, licenseFile): return self.installLicense(authToken, licenseFile)
installLicense ==
    [name |-> "installLicense",
     params |-> <<"authToken", "licenseFile">>,
     defaults |-> <<Required, Required>>,
     target |-> "self", callee |-> "installLicense",
     wire |-> <<"authToken", "licenseFile">>]

\* def isGroupExists(self, authToken, groupName): return self.api.isGroupExists(authToken, groupName)
isGroupExists ==
    [name |-> "isGroupExists",
     params |-> <<"authToken", "groupName">>,
     defaults |-> <<Required, Required>>,
     target |-> "self.api", callee |-> "isGroupExists",
     wire |-> <<"authToken", "groupName">>]

\* def isSharedAccountExists(self, authToken, accountName): return self.api.isSharedAccountExists(authToken, accountName)
isSharedAccountExists ==
    [name |-> "isSharedAccountExists",
     params |-> <<"authToken", "accountName">>,
     defaults |-> <<Required, Required>>,
     target |-> "self.api", callee |-> "isSharedAccountExists",
     wire |-> <<"authToken", "accountName">>]

\* def isUserExists(self, authToken, userName): return self.api.isUserExists(authToken, userName)
isUserExists ==
    [name |-> "isUserExists",
     params |-> <<"authToken", "userName">>,
     defaults |-> <<Required, Required>>,
     target |-> "self.api", callee |-> "isUserExists",
     wire |-> <<"authToken", "userName">>]

\* def listPrinters(self, authToken, offset=0, limit=1000): return self.api.listPrinters(authToken, offset, limit)
listPrinters ==
    [name |-> "listPrinters",
     params |-> <<"authToken", "offset", "limit">>,
     defaults |-> <<Required, "0", "1000">>,
     target |-> "self.api", callee |-> "listPrinters",
     wire |-> <<"authToken", "offset", "limit">>]

\* def listSharedAccounts(self, authToken, offset=0, limit=1000): return self.api.listSharedAccounts(authToken, offset, limit)
listSharedAccounts ==
    [name |-> "listSharedAccounts",
     params |-> <<"authToken", "offset", "limit">>,
     defaults |-> <<Required, "0", "1000">>,
     target |-> "self.api", callee |-> "listSharedAccounts",
     wire |-> <<"authToken", "offset", "limit">>]

\* def listUserAccounts(self, authToken, offset=0, limit=1000): return self.api.listUserAccounts(authToken, offset, limit)
listUserAccounts ==
    [name |-> "listUserAccounts",
     params |-> <<"authToken", "offset", "limit">>,
     defaults |-> <<Required, "0", "1000">>,
     target |-> "self.api", callee |-> "listUserAccounts",
     wire |-> <<"authToken", "offset", "limit">>]

\* def listUserGroups(self, authToken, offset=0, limit=1000): return self.api.listUserGroups(authToken, offset, limit)
listUserGroups ==
    [name |-> "listUserGroups",
     params |-> <<"authToken", "offset", "limit">>,
     defaults |-> <<Required, "0", "1000">>,
     target |-> "self.api", callee |-> "listUserGroups",
     wire |-> <<"authToken", "offset", "limit">>]

\* def listUserSharedAccounts(self, authToken, userName, offset=0, limit=1000, ignoreAccountMode=False): return self.api.listUserSharedAccounts(authToken, userName, offset, limit, ignoreAccountMode)
listUserSharedAccounts ==
    [name |-> "listUserSharedAccounts",
     params |-> <<"authToken", "userName", "offset", "limit", "ignoreAccountMode">>,
     defaults |-> <<Required, Required, "0", "1000", "False">>,
     target |-> "self.api", callee |-> "listUserSharedAccounts",
     wire |-> <<"authToken", "userName", "offset", "limit", "ignoreAccountMode">>]

\* def lookUpUserNameByCardNo(self, authToken, cardNo): return self.api.lookUpUserNameByCardNo(authToken, cardNo)
lookUpUserNameByCardNo ==
    [name |-> "lookUpUserNameByCardNo",
     params |-> <<"authToken", "cardNo">>,
     defaults |-> <<Required, Required>>,
     target |-> "self.api", callee |-> "lookUpUserNameByCardNo",
     wire |-> <<"authToken", "cardNo">>]

\* def lookUpUserNameByEmail(self, authToken, email): return self.api.lookUpUserNameByEmail(authToken, email)
lookUpUserNameByEmail ==
    [name |-> "lookUpUserNameByEmail",
     params |-> <<"authToken", "email">>,
     defaults |-> <<Required, Required>>,
     target |-> "self.api", callee |-> "lookUpUserNameByEmail",
     wire |-> <<"authToken", "email">>]

\* def lookUpUserNameByIDNo(self, authToken, idNo): return self.api.lookUpUserNameByIDNo(authToken, idNo)
lookUpUserNameByIDNo ==
    [name |-> "lookUpUserNameByIDNo",
     params |-> <<"authToken", "idNo">>,
     defaults |-> <<Required, Required>>,
     target |-> "self.api", callee |-> "lookUpUserNameByIDNo",
     wire |-> <<"authToken", "idNo">>]

\* def lookUpUserNameBySecondaryUserName(self, authToken, secondaryUserName): return self.api.lookUpUserNameBySecondaryUserName(authToken, secondaryUserName)
lookUpUserNameBySecondaryUserName ==
    [name |-> "lookUpUserNameBySecondaryUserName",
     params |-> <<"authToken", "secondaryUserName">>,
     defaults |-> <<Required, Required>>,
     target |-> "self.api", callee |-> "lookUpUserNameBySecondaryUserName",
     wire |-> <<"authToken", "secondaryUserName">>]

\* def lookUpUsersByFullName(self, authToken, fullName): return self.api.lookUpUsersByFullName(authToken, fullName)
lookUpUsersByFullName ==
    [name |-> "lookUpUsersByFullName",
     params |-> <<"authToken", "fullName">>,
     defaults |-> <<Required, Required>>,
     target |-> "self.api", callee |-> "lookUpUsersByFullName",
     wire |-> <<"authToken", "fullName">>]

\* def performGroupSync(self, authToken): return self.api.performGroupSync(authToken)
performGroupSync ==
    [name |-> "performGroupSync",
     params |-> <<"authToken">>,
     defaults |-> <<Required>>,
     target |-> "self.api", callee |-> "performGroupSync",
     wire |-> <<"authToken">>]

\* def performOnlineBackup(self, authToken): return self.api.performOnlineBackup(authToken)
performOnlineBackup ==
    [name |-> "performOnlineBackup",
     params |-> <<"authToken">>,
     defaults |-> <<Required>>,
     target |-> "self.api", callee |-> "performOnlineBackup",
     wire |-> <<"authToken">>]

\* def performUserAndGroupSync(self, authToken): return self.api.performUserAndGroupSync(authToken)
performUserAndGroupSync ==
    [name |-> "performUserAndGroupSync",
     params |-> <<"authToken">>,
     defaults |-> <<Required>>,
     target |-> "self.api", callee |-> "performUserAndGroupSync",
     wire |-> <<"authToken">>]

\* def performUserAndGroupSyncAdvanced(self, authToken, deleteNonExistentUsers=False, updateUserDetails=False): return self.api.performUserAndGroupSyncAdvanced(authToken, deleteNonExistentUsers, updateUserDetails)
performUserAndGroupSyncAdvanced ==
    [name |-> "performUserAndGroupSyncAdvanced",
     params |-> <<"authToken", "deleteNonExistentUsers", "updateUserDetails">>,
     defaults |-> <<Required, "False", "False">>,
     target |-> "self.api", callee |-> "performUserAndGroupSyncAdvanced",
     wire |-> <<"authToken", "deleteNonExistentUsers", "updateUserDetails">>]

\* def processJob(self, authToken, jobDetails): return self.api.processJob(authToken, jobDetails)
processJob ==
    [name |-> "processJob",
     params |-> <<"authToken", "jobDetails">>,
     defaults |-> <<Required, Required>>,
     target |-> "self.api", callee |-> "processJob",
     wire |-> <<"authToken", "jobDetails">>]

\* def reapplyInitialUserSettings(self, authToken, userName): return self.api.reapplyInitialUserSettings(authToken, userName)
reapplyInitialUserSettings ==
    [name |-> "reapplyInitialUserSettings",
     params |-> <<"authToken", "userName">>,
     defaults |-> <<Required, Required>>,
     target |-> "self.api", callee |-> "reapplyInitialUserSettings",
     wire |-> <<"authToken", "userName">>]

\* def removeAdminAccessGroup(self, authToken, groupName): return self.api.removeAdminAccessGroup(authToken, groupName)
removeAdminAccessGroup ==
    [name |-> "removeAdminAccessGroup",
     params |-> <<"authToken", "groupName">>,
     defaults |-> <<Required, Required>>,
     target |-> "self.api", callee |-> "removeAdminAccessGroup",
     wire |-> <<"authToken", "groupName">>]

\* def removeAdminAccessUser(self, authToken, userName): return self.api.removeAdminAccessUser(authToken, userName)
removeAdminAccessUser ==
    [name |-> "removeAdminAccessUser",
     params |-> <<"authToken", "userName">>,
     defaults |-> <<Required, Required>>,
     target |-> "self.api", callee |-> "removeAdminAccessUser",
     wire |-> <<"authToken", "userName">>]

\* def removeGroup(self, authToken, groupName): return self.api.removeGroup(authToken, groupName)
removeGroup ==
    [name |-> "removeGroup",
     params |-> <<"authToken", "groupName">>,
     defaults |-> <<Required, Required>>,
     target |-> "self.api", callee |-> "removeGroup",
     wire |-> <<"authToken", "groupName">>]

\* def removePrinterAccessGroup(self, authToken, serverName, printerName, groupName): return self.api.removePrinterAccessGroup(authToken, serverName, printerName, groupName)
removePrinterAccessGroup ==
    [name |-> "removePrinterAccessGroup",
     params |-> <<"authToken", "serverName", "printerName", "groupName">>,
     defaults |-> <<Required, Required, Required, Required>>,
     target |-> "self.api", callee |-> "removePrinterAccessGroup",
     wire |-> <<"authToken", "serverName", "printerName", "groupName">>]

\* def removeSharedAccountAccessGroup(self, authToken, sharedAccountName, groupName): return self.api.removeSharedAccountAccessGroup(authToken, sharedAccountName, groupName)
removeSharedAccountAccessGroup ==
    [name |-> "removeSharedAccountAccessGroup",
     params |-> <<"authToken", "sharedAccountName", "groupName">>,
     defaults |-> <<Required, Required, Required>>,
     target |-> "self.api", callee |-> "removeSharedAccountAccessGroup",
     wire |-> <<"authToken", "sharedAccountName", "groupName">>]

\* def removeSharedAccountAccessUser(self, authToken, sharedAccountName, userName): return self.api.removeSharedAccountAccessUser(authToken, sharedAccountName, userName)
removeSharedAccountAccessUser ==
    [name |-> "removeSharedAccountAccessUser",
     params |-> <<"authToken", "sharedAccountName", "userName">>,
     defaults |-> <<Required, Required, Required>>,
     target |-> "self.api", callee |-> "removeSharedAccountAccessUser",
     wire |-> <<"authToken", "sharedAccountName", "userName">>]

\* def removeUserFromGroup(self, authToken, userName, groupName): return self.api.removeUserFromGroup(authToken, userName, groupName)
removeUserFromGroup ==
    [name |-> "removeUserFromGroup",
     params |-> <<"authToken", "userName", "groupName">>,
     defaults |-> <<Required, Required, Required>>,
     target |-> "self.api", callee |-> "removeUserFromGroup",
     wire |-> <<"authToken", "userName", "groupName">>]

\* def renamePrinter(self, authToken, serverName, printerName, newServerName, newPrinterName): return self.api.renamePrinter(authToken, serverName, printerName, newServerName, newPrinterName)
renamePrinter ==
    [name |-> "renamePrinter",
     params |-> <<"authToken", "serverName", "printerName", "newServerName", "newPrinterName">>,
     defaults |-> <<Required, Required, Required, Required, Required>>,
     target |-> "self.api", callee |-> "renamePrinter",
     wire |-> <<"authToken", "serverName", "printerName", "newServerName", "newPrinterName">>]

\* def renameSharedAccount(self, authToken, currentSharedAccountName, newSharedAccountName): return self.api.renameSharedAccount(authToken, currentSharedAccountName, newSharedAccountName)
renameSharedAccount ==
    [name |-> "renameSharedAccount",
     params |-> <<"authToken", "currentSharedAccountName", "newSharedAccountName">>,
     defaults |-> <<Required, Required, Required>>,
     target |-> "self.api", callee |-> "renameSharedAccount",
     wire |-> <<"authToken", "currentSharedAccountName", "newSharedAccountName">>]

\* def renameUserAccount(self, authToken, currentUserName, newUserName): return self.api.renameUserAccount(authToken, currentUserName, newUserName)
renameUserAccount ==
    [name |-> "renameUserAccount",
     params |-> <<"authToken", "currentUserName", "newUserName">>,
     defaults |-> <<Required, Required, Required>>,
     target |-> "self.api", callee |-> "renameUserAccount",
     wire |-> <<"authToken", "currentUserName", "newUserName">>]

\* def resetPrinterCounts(self, authToken, serverName, printerName, resetBy): return self.api.resetPrinterCounts(authToken, serverName, printerName, resetBy)
resetPrinterCounts ==
    [name |-> "resetPrinterCounts",
     params |-> <<"authToken", "serverName", "printerName", "resetBy">>,
     defaults |-> <<Required, Required, Required, Required>>,
     target |-> "self.api", callee |-> "resetPrinterCounts",
     wire |-> <<"authToken", "serverName", "printerName", "resetBy">>]

\* def resetUserCounts(self, authToken, userName, resetBy): return self.api.resetUserCounts(authToken, userName, resetBy)
resetUserCounts ==
    [name |-> "resetUserCounts",
     params |-> <<"authToken", "userName", "resetBy">>,
     defaults |-> <<Required, Required, Required>>,
     target |-> "self.api", callee |-> "resetUserCounts",
     wire |-> <<"authToken", "userName", "resetBy">>]

\* def runCommand(self, authToken, commandName, args): return self.api.runCommand(authToken, commandName, args)
runCommand ==
    [name |-> "runCommand",
     params |-> <<"authToken", "commandName", "args">>,
     defaults |-> <<Required, Required, Required>>,
     target |-> "self.api", callee |-> "runCommand",
     wire |-> <<"authToken", "commandName", "args">>]

\* def saveThreadSnapshot(self, authToken): return self.api.saveThreadSnapshot(authToken)
saveThreadSnapshot ==
    [name |-> "saveThreadSnapshot",
     params |-> <<"authToken">>,
     defaults |-> <<Required>>,
     target |-> "self.api", callee |-> "saveThreadSnapshot",
     wire |-> <<"authToken">>]

\* def setConfigValue(self, authToken, configName, configValue): return self.api.setConfigValue(authToken, configName, configValue)
setConfigValue ==
    [name |-> "setConfigValue",
     params |-> <<"authToken", "configName", "configValue">>,
     defaults |-> <<Required, Required, Required>>,
     target |-> "self.api", callee |-> "setConfigValue",
     wire |-> <<"authToken", "configName", "configValue">>]

\* def setGroupQuota(self, authToken, groupName, quotaAmount, quotaMaxAccumulation, period='NONE'): return self.api.setGroupQuota(authToken, groupName, quotaAmount, period, quotaMaxAccumulation)
setGroupQuota ==
    [name |-> "setGroupQuota",
     params |-> <<"authToken", "groupName", "quotaAmount", "quotaMaxAccumulation", "period">>,
     defaults |-> <<Required, Required, Required, Required, "'NONE'">>,
     target |-> "self.api", callee |-> "setGroupQuota",
     wire |-> <<"authToken", "groupName", "quotaAmount", "period", "quotaMaxAccumulation">>]

\* def setPrinterCostSimple(self, authToken, serverName, printerName, costPerPage): return self.api.setPrinterCostSimple(authToken, serverName, printerName, costPerPage)
setPrinterCostSimple ==
    [name |-> "setPrinterCostSimple",
     params |-> <<"authToken", "serverName", "printerName", "costPerPage">>,
     defaults |-> <<Required, Required, Required, Required>>,
     target |-> "self.api", callee |-> "setPrinterCostSimple",
     wire |-> <<"authToken", "serverName", "printerName", "costPerPage">>]

\* def setPrinterGroups(self, authToken, serverName, printerName, printerGroupNames): return self.api.setPrinterGroups(authToken, serverName, printerName, printerGroupNames)
setPrinterGroups ==
    [name |-> "setPrinterGroups",
     params |-> <<"authToken", "serverName", "printerName", "printerGroupNames">>,
     defaults |-> <<Required, Required, Required, Required>>,
     target |-> "self.api", callee |-> "setPrinterGroups",
     wire |-> <<"authToken", "serverName", "printerName", "printerGroupNames">>]

\* def setPrinterProperties(self, authToken, serverName, printerName, propertyNamesAndValues): return self.api.setPrinterProperties(authToken, serverName, printerName, propertyNamesAndValues)
setPrinterProperties ==
    [name |-> "setPrinterProperties",
     params |-> <<"authToken", "serverName", "printerName", "propertyNamesAndValues">>,
     defaults |-> <<Required, Required, Required, Required>>,
     target |-> "self.api", callee |-> "setPrinterProperties",
     wire |-> <<"authToken", "serverName", "printerName", "propertyNamesAndValues">>]

\* def setPrinterProperty(self, authToken, printerName, propertyName, serverName, propertyValue='SIMPLE'): return self.api.setPrinterProperty(authToken, propertyName, propertyValue, serverName, printerName)
setPrinterProperty ==
    [name |-> "setPrinterProperty",
     params |-> <<"authToken", "printerName", "propertyName", "serverName", "propertyValue">>,
     defaults |-> <<Required, Required, Required, Required, "'SIMPLE'">>,
     target |-> "self.api", callee |-> "setPrinterProperty",
     wire |-> <<"authToken", "propertyName", "propertyValue", "serverName", "printerName">>]

\* def setSharedAccountAccountBalance(self, authToken, accountName, balance, comment=None): return self.api.setSharedAccountAccountBalance(authToken, accountName, balance, comment)
setSharedAccountAccountBalance ==
    [name |-> "setSharedAccountAccountBalance",
     params |-> <<"authToken", "accountName", "balance", "comment">>,
     defaults |-> <<Required, Required, Required, None>>,
     target |-> "self.api", callee |-> "setSharedAccountAccountBalance",
     wire |-> <<"authToken", "accountName", "balance", "comment">>]

\* def setSharedAccountOverdraftMode(self, authToken, accountName, mode): return self.api.setSharedAccountOverdraftMode(authToken, accountName, mode)
setSharedAccountOverdraftMode ==
    [name |-> "setSharedAccountOverdraftMode",
     params |-> <<"authToken", "accountName", "mode">>,
     defaults |-> <<Required, Required, Required>>,
     target |-> "self.api", callee |-> "setSharedAccountOverdraftMode",
     wire |-> <<"authToken", "accountName", "mode">>]

\* def setSharedAccountProperties(self, authToken, sharedAccountName, propertyNamesAndValues): return self.api.setSharedAccountProperties(authToken, sharedAccountName, propertyNamesAndValues)
setSharedAccountProperties ==
    [name |-> "setSharedAccountProperties",
     params |-> <<"authToken", "sharedAccountName", "propertyNamesAndValues">>,
     defaults |-> <<Required, Required, Required>>,
     target |-> "self.api", callee |-> "setSharedAccountProperties",
     wire |-> <<"authToken", "sharedAccountName", "propertyNamesAndValues">>]

\* def setSharedAccountProperty(self, authToken, sharedAccountName, propertyName, propertyValue): return self.api.setSharedAccountProperty(authToken, sharedAccountName, propertyName, propertyValue)
setSharedAccountProperty ==
    [name |-> "setSharedAccountProperty",
     params |-> <<"authToken", "sharedAccountName", "propertyName", "propertyValue">>,
     defaults |-> <<Required, Required, Required, Required>>,
     target |-> "self.api", callee |-> "setSharedAccountProperty",
     wire |-> <<"authToken", "sharedAccountName", "propertyName", "propertyValue">>]

\* def setUserAccountBalance(self, authToken, userName, balance, comment=None, accountName=None): return self.api.setUserAccountBalance(authToken, userName, balance, comment, accountName)
setUserAccountBalance ==
    [name |-> "setUserAccountBalance",
     params |-> <<"authToken", "userName", "balance", "comment", "accountName">>,
     defaults |-> <<Required, Required, Required, None, None>>,
     target |-> "self.api", callee |-> "setUserAccountBalance",
     wire |-> <<"authToken", "userName", "balance", "comment", "accountName">>]

\* def setUserAccountBalanceByGroup(self, authToken, group, balance, comment=None, accountName=None): return self.api.setUserAccountBalanceByGroup(authToken, group, balance, comment, accountName)
setUserAccountBalanceByGroup ==
    [name |-> "setUserAccountBalanceByGroup",
     params |-> <<"authToken", "group", "balance", "comment", "accountName">>,
     defaults |-> <<Required, Required, Required, None, None>>,
     target |-> "self.api", callee |-> "setUserAccountBalanceByGroup",
     wire |-> <<"authToken", "group", "balance", "comment", "accountName">>]

\* def setUserAccountSelectionAdvancedPopup(self, authToken, userName, allowPersonal=False, chargeToPersonalWhenSharedSelected=False, defaultSharedAccount=None): return self.api.setUserAccountSelectionAdvancedPopup(authToken, userName, allowPersonal, chargeToPersonalWhenSharedSelected, defaultSharedAccount)
setUserAccountSelectionAdvancedPopup ==
    [name |-> "setUserAccountSelectionAdvancedPopup",
     params |-> <<"authToken", "userName", "allowPersonal", "chargeToPersonalWhenSharedSelected", "defaultSharedAccount">>,
     defaults |-> <<Required, Required, "False", "False", None>>,
     target |-> "self.api", callee |-> "setUserAccountSelectionAdvancedPopup",
     wire |-> <<"authToken", "userName", "allowPersonal", "chargeToPersonalWhenSharedSelected", "defaultSharedAccount">>]

\* def setUserAccountSelectionAutoChargePersonal(self, authToken, userName, withPopupConfirmation): return self.api.setUserAccountSelectionAutoChargePersonal(authToken, userName, withPopupConfirmation)
setUserAccountSelectionAutoChargePersonal ==
    [name |-> "setUserAccountSelectionAutoChargePersonal",
     params |-> <<"authToken", "userName", "withPopupConfirmation">>,
     defaults |-> <<Required, Required, Required>>,
     target |-> "self.api", callee |-> "setUserAccountSelectionAutoChargePersonal",
     wire |-> <<"authToken", "userName", "withPopupConfirmation">>]

\* def setUserAccountSelectionAutoSelectSharedAccount(self, authToken, userName, accountName, chargeToPersonal): return self.api.setUserAccountSelectionAutoSelectSharedAccount(authToken, userName, accountName, chargeToPersonal)
setUserAccountSelectionAutoSelectSharedAccount ==
    [name |-> "setUserAccountSelectionAutoSelectSharedAccount",
     params |-> <<"authToken", "userName", "accountName", "chargeToPersonal">>,
     defaults |-> <<Required, Required, Required, Required>>,
     target |-> "self.api", callee |-> "setUserAccountSelectionAutoSelectSharedAccount",
     wire |-> <<"authToken", "userName", "accountName", "chargeToPersonal">>]

\* def setUserAccountSelectionStandardPopup(self, authToken, userName, allowPersonal, allowListSelection, allowPinCode, allowPrintingAsOtherUser, chargeToPersonalWhenSharedSelected, defaultSharedAccount=None): return self.api.setUserAccountSelectionStandardPopup(authToken, userName, allowPersonal, allowListSelection, allowPinCode, allowPrintingAsOtherUser, chargeToPersonalWhenSharedSelected, defaultSharedAccount)
setUserAccountSelectionStandardPopup ==
    [name |-> "setUserAccountSelectionStandardPopup",
     params |-> <<"authToken", "userName", "allowPersonal", "allowListSelection", "allowPinCode", "allowPrintingAsOtherUser", "chargeToPersonalWhenSharedSelected", "defaultSharedAccount">>,
     defaults |-> <<Required, Required, Required, Required, Required, Required, Required, None>>,
     target |-> "self.api", callee |-> "setUserAccountSelectionStandardPopup",
     wire |-> <<"authToken", "userName", "allowPersonal", "allowListSelection", "allowPinCode", "allowPrintingAsOtherUser", "chargeToPersonalWhenSharedSelected", "defaultSharedAccount">>]

\* def setUserOverdraftMode(self, authToken, userName, mode): return self.api.setUserOverdraftMode(authToken, userName, mode)
setUserOverdraftMode ==
    [name |-> "setUserOverdraftMode",
     params |-> <<"authToken", "userName", "mode">>,
     defaults |-> <<Required, Required, Required>>,
     target |-> "self.api", callee |-> "setUserOverdraftMode",
     wire |-> <<"authToken", "userName", "mode">>]

\* def setUserProperty(self, authToken, userName, propertyName, propertyValue): return self.api.setUserProperty(authToken, userName, propertyName, propertyValue)
setUserProperty ==
    [name |-> "setUserProperty",
     params |-> <<"authToken", "userName", "propertyName", "propertyValue">>,
     defaults |-> <<Required, Required, Required, Required>>,
     target |-> "self.api", callee |-> "setUserProperty",
     wire |-> <<"authToken", "userName", "propertyName", "propertyValue">>]

\* def setUserProperties(self, authToken, userName, propertyNamesAndValues): return self.api.setUserProperties(authToken, userName, propertyNamesAndValues)
setUserProperties ==
    [name |-> "setUserProperties",
     params |-> <<"authToken", "userName", "propertyNamesAndValues">>,
     defaults |-> <<Required, Required, Required>>,
     target |-> "self.api", callee |-> "setUserProperties",
     wire |-> <<"authToken", "userName", "propertyNamesAndValues">>]

\* def syncGroup(self, authToken, groupName): return self.api.syncGroup(authToken, groupName)
syncGroup ==
    [name |-> "syncGroup",
     params |-> <<"authToken", "groupName">>,
     defaults |-> <<Required, Required>>,
     target |-> "self.api", callee |-> "syncGroup",
     wire |-> <<"authToken", "groupName">>]

\* def useCard(self, authToken, userName, cardNumber): return self.api.useCard(authToken, userName, cardNumber)
useCard ==
    [name |-> "useCard",
     params |-> <<"authToken", "userName", "cardNumber">>,
     defaults |-> <<Required, Required, Required>>,
     target |-> "self.api", callee |-> "useCard",
     wire |-> <<"authToken", "userName", "cardNumber">>]

\* The forwarding methods of ServerCommandProxy, one record per method.
Catalogue ==
    {addAdminAccessGroup, addAdminAccessUser, addNewGroup, 
     addNewInternalUser, addNewSharedAccount, addNewUser, addNewUsers, 
     addPrinterAccessGroup, addPrinterGroup, addSharedAccountAccessGroup, 
     addSharedAccountAccessUser, addUserToGroup, 
     adjustSharedAccountAccountBalance, adjustUserAccountBalance, 
     adjustUserAccountBalanceByCardNumber, 
     adjustUserAccountBalanceByGroup, adjustUserAccountBalanceByGroupUpTo, 
     adjustUserAccountBalanceIfAvailable, 
     adjustUserAccountBalanceIfAvailableLeaveRemaining, 
     applyDeviceSettings, batchImportInternalUsers, batchImportPrinters, 
     batchImportSharedAccounts, batchImportUserCardIdNumbers, 
     batchImportUsers, changeInternalAdminPassword, 
     clearUserAdvancedPrinterSettings, createUserClientAccountsFile, 
     deleteExistingSharedAccount, deleteExistingUser, deletePrinter, 
     disableDeviceSnmpv3, disablePrinter, disablePrinterSnmpv3, 
     disablePrintingForUser, disableSharedAccount, enableDeviceSnmpv3, 
     enablePrinter, enablePrinterSnmpv3, exportUserDataHistory, 
     generateAdHocReport, generateScheduledReport, getConfigValue, 
     getDeviceSnmpv3, getGroupMembers, getGroupQuota, 
     getPrinterCostSimple, getPrinterProperties, getPrinterProperty, 
     getPrinterSnmpv3, getSharedAccountAccountBalance, 
     getSharedAccountOverdraftMode, getSharedAccountProperties, 
     getSharedAccountProperty, getTaskStatus, getTotalUsers, 
     getUserAccountBalance, getUserGroups, getUserOverdraftMode, 
     getUserProperties, getUserProperty, installLicense, isGroupExists, 
     isSharedAccountExists, isUserExists, listPrinters, 
     listSharedAccounts, listUserAccounts, listUserGroups, 
     listUserSharedAccounts, lookUpUserNameByCardNo, 
     lookUpUserNameByEmail, lookUpUserNameByIDNo, 
     lookUpUserNameBySecondaryUserName, lookUpUsersByFullName, 
     performGroupSync, performOnlineBackup, performUserAndGroupSync, 
     performUserAndGroupSyncAdvanced, processJob, 
     reapplyInitialUserSettings, removeAdminAccessGroup, 
     removeAdminAccessUser, removeGroup, removePrinterAccessGroup, 
     removeSharedAccountAccessGroup, removeSharedAccountAccessUser, 
     removeUserFromGroup, renamePrinter, renameSharedAccount, 
     renameUserAccount, resetPrinterCounts, resetUserCounts, runCommand, 
     saveThreadSnapshot, setConfigValue, setGroupQuota, 
     setPrinterCostSimple, setPrinterGroups, setPrinterProperties, 
     setPrinterProperty, setSharedAccountAccountBalance, 
     setSharedAccountOverdraftMode, setSharedAccountProperties, 
     setSharedAccountProperty, setUserAccountBalance, 
     setUserAccountBalanceByGroup, setUserAccountSelectionAdvancedPopup, 
     setUserAccountSelectionAutoChargePersonal, 
     setUserAccountSelectionAutoSelectSharedAccount, 
     setUserAccountSelectionStandardPopup, setUserOverdraftMode, 
     setUserProperty, setUserProperties, syncGroup, useCard}

(***************************************************************************)
(* Construction: __init__(host, port, ssl, verbose)                        *)
(***************************************************************************)
\* Arguments the constructor is called with.
Hosts == {"localhost", "printsrv"}
Ports == {9191, 9192}
SslValues == {"False", "True", "1", "'yes'"}
VerboseValues == {"False", "True"}

\* Defaults of __init__.
DefaultHost == "localhost"
DefaultPort == 9191
DefaultSsl == "False"
DefaultVerbose == "False"

\* Variant: the scheme does not depend on ssl.
EndpointUrlAlwaysHttp(h, p, s) ==
    "http://" \o h \o ":" \o ToString(p) \o "/rpc/api/xmlrpc"

\* Variant: the scheme follows the truth value of ssl (if self.ssl:).
EndpointUrlTruthy(h, p, s) ==
    IF s \in {"True", "1", "'yes'"}
    THEN "https://" \o h \o ":" \o ToString(p) \o "/rpc/api/xmlrpc"
    ELSE "http://" \o h \o ":" \o ToString(p) \o "/rpc/api/xmlrpc"

\* if self.ssl is True: f"https://{host}:{port}/rpc/api/xmlrpc" else f"http://..."
EndpointUrl(h, p, s) ==
    IF s = "True"
    THEN "https://" \o h \o ":" \o ToString(p) \o "/rpc/api/xmlrpc"
    ELSE "http://" \o h \o ":" \o ToString(p) \o "/rpc/api/xmlrpc"

(***************************************************************************)
(* Objects                                                                 *)
(***************************************************************************)
\* self.api = None
NoneObj == [type |-> "NoneType", handle |-> 0]
\* ServerProxy(...).api : the _Method named "api" bound to ServerProxy h
Method(h) == [type |-> "_Method", handle |-> h]
\* What a @contextmanager function returns when called: a
\* _GeneratorContextManager whose gen is the value the function returned.
ContextManager(obj) == [type |-> "_GeneratorContextManager", handle |-> obj.handle]

\* Variant: ServerProxy(uri=self.url), with the library's defaults.
NewHandleDefaults(u, v) ==
    [uri |-> u, verbose |-> "False", allow_none |-> "False", conn |-> "idle", closes |-> 0]

\* ServerProxy(uri=self.url, verbose=self.verbose, allow_none=True)
NewHandle(u, v) ==
    [uri |-> u, verbose |-> v, allow_none |-> "True", conn |-> "idle", closes |-> 0]

\* The value the decorated __enter__ hands to its caller.
EnterValue(obj) == ContextManager(obj)

\* self.api.__close in __exit__: an attribute read.  On None it raises
\* AttributeError; on a _Method it builds another _Method and calls nothing.
CloseAttempt(obj) == IF obj.type = "NoneType" THEN "AttributeError" ELSE "none"

\* The handles after __exit__ ran on a proxy whose api is obj: nothing is
\* called on the ServerProxy, so no transport is closed.
HandlesAfterExit(hs, obj) == hs

\* Variant: __exit__ returns True.
ExitSuppressesAll == TRUE

\* What __exit__ returns: None (falsy), so a pending exception is re-raised.
ExitSuppresses == FALSE

(***************************************************************************)
(* Forwarding methods                                                      *)
(***************************************************************************)
\* Marks a parameter the caller leaves out of the call.
Omitted == "<omitted>"

\* Values a caller passes for parameter p.
ArgValues(p) ==
    CASE p = "adjustment" -> {"-5.0", "2.5"}
      [] p = "disableMins" -> {"30"}
      [] p = "mode" -> {"'individual'", "'bogus'"}
      [] p = "propertyValue" -> {"'AREA'", "'bogus'"}
      [] p = "period" -> {"'DAILY'", "'bogus'"}
      [] OTHER -> {"'" \o p \o "'"}

ParamChoices(m, i) ==
    ArgValues(m.params[i]) \cup (IF m.defaults[i] # Required THEN {Omitted} ELSE {})

\* The ways a caller can call method m: one entry per parameter, a value
\* or Omitted (only for a parameter with a default).
RECURSIVE CallsUpTo(_, _)
CallsUpTo(m, n) ==
    IF n = 0 THEN {<<>>}
    ELSE {Append(c, v) : c \in CallsUpTo(m, n - 1), v \in ParamChoices(m, n)}
Calls(m) == CallsUpTo(m, Len(m.params))

IndexOf(s, e) == CHOOSE i \in 1..Len(s) : s[i] = e

\* The parameters whose docstring lists a closed set of values.
EnumeratedParams == {"mode", "propertyValue", "period"}

\* Variant: a value outside the documented set is replaced by None before
\* the call is forwarded.
BindValidatesEnumerated(m, c) ==
    [i \in 1..Len(m.params) |->
        IF c[i] = Omitted THEN m.defaults[i]
        ELSE IF m.params[i] \in EnumeratedParams /\ c[i] = "'bogus'" THEN None
        ELSE c[i]]

\* Variant: an omitted parameter is always bound to None.
BindNullsOmitted(m, c) ==
    [i \in 1..Len(m.params) |-> IF c[i] = Omitted THEN None ELSE c[i]]

\* Python's binding of the call to the def's parameters.
Bind(m, c) ==
    [i \in 1..Len(m.params) |-> IF c[i] = Omitted THEN m.defaults[i] ELSE c[i]]

\* Variant: the arguments are passed in declaration order.
WireArgsDeclared(m, bound) == bound

\* Variant: the token is passed last instead of first.
WireArgsTokenLast(m, bound) ==
    LET w == [j \in 1..Len(m.wire) |-> bound[IndexOf(m.params, m.wire[j])]]
    IN  Append(Tail(w), Head(w))

\* Variant: every method passes its last two arguments swapped.
WireArgsSwapsLastTwo(m, bound) ==
    LET w == [j \in 1..Len(m.wire) |-> bound[IndexOf(m.params, m.wire[j])]]
        n == Len(w)
    IN  IF n < 3 THEN w
        ELSE [j \in 1..n |-> IF j = n THEN w[n - 1] ELSE IF j = n - 1 THEN w[n] ELSE w[j]]

\* Variant: arguments that are None are left out of the call.
WireArgsDropNone(m, bound) ==
    SelectSeq([j \in 1..Len(m.wire) |-> bound[IndexOf(m.params, m.wire[j])]],
              LAMBDA v : v # None)

\* The positional arguments of the call in the method body.
WireArgs(m, bound) ==
    [j \in 1..Len(m.wire) |-> bound[IndexOf(m.params, m.wire[j])]]

\* self.api.<callee> is the _Method named "api.<callee>".
RemoteName(m) == "api." \o m.callee

\* xmlrpc.client.dumps: values it cannot marshal raise TypeError; None is
\* marshalled only when allow_none is set.
Unmarshallable == {"<class 'int'>", "dict[str, any] | list[str]"}
CanMarshal(h, v) == v \notin Unmarshallable /\ (v = None => h.allow_none = "True")

\* Variant: the method coerces the remote's result to a boolean.
ForwardResultCoerced(reply) ==
    IF reply.kind = "return" THEN [kind |-> "return", value |-> "True"] ELSE reply

\* Variant: the method catches the remote's error and raises its own.
ForwardResultWrapped(reply) ==
    IF reply.kind \in {"Fault", "ProtocolError"} THEN [kind |-> "RuntimeError", value |-> ""]
    ELSE reply

\* Variant: the method calls the remote and forgets to return its result.
ForwardResultDropped(reply) ==
    IF reply.kind = "return" THEN [kind |-> "return", value |-> None] ELSE reply

\* return self.api.<callee>(...): the remote's reply is the method's outcome.
ForwardResult(reply) == reply

\* The remote stub: answers a canned boolean or its call counter, raises a
\* fault, or the transport fails.
StubReplies(n) ==
    {[kind |-> "return", value |-> "True"],
     [kind |-> "return", value |-> ToString(n)],
     [kind |-> "Fault", value |-> "fault"],
     [kind |-> "ProtocolError", value |-> "transport"]}

NoOutcome == [kind |-> "none", value |-> ""]
Raised(e) == [kind |-> e, value |-> ""]
IsError(o) == o.kind \notin {"none", "pending", "return"}

NoCall ==
    [method |-> "", choice |-> <<>>, scope |-> 0, via |-> "", bound |-> <<>>,
     sentName |-> "", sentArgs |-> <<>>, handle |-> 0, received |-> FALSE,
     roundTrips |-> 0, reply |-> NoOutcome, outcome |-> NoOutcome]

NoExit == [scope |-> 0, raised |-> "none", exc |-> "none", propagated |-> "none"]

VARIABLES host, port, ssl, verbose, url, api, handles, scopes, call, pc, depth,
          localCalls, remoteCalls, lastExit,
          ctor    \* the arguments __init__ was called with

config == <<host, port, ssl, verbose, url>>
vars == <<host, port, ssl, verbose, url, api, handles, scopes, call, pc, depth,
          localCalls, remoteCalls, lastExit, ctor>>

\* The arguments of a constructor call: a record of the ones the caller
\* supplies.
NoArgs == [n \in {} |-> ""]
Arg(args, name, default) == IF name \in DOMAIN args THEN args[name] ELSE default

\* Variant: __init__ converts ssl to a boolean before storing it.
ConstructValidated(args) ==
    /\ ctor = args
    /\ host = Arg(args, "host", DefaultHost)
    /\ port = Arg(args, "port", DefaultPort)
    /\ ssl = (IF Arg(args, "ssl", DefaultSsl) \in {"True", "1", "'yes'"} THEN "True" ELSE "False")
    /\ verbose = Arg(args, "verbose", DefaultVerbose)
    /\ url = EndpointUrl(host, port, Arg(args, "ssl", DefaultSsl))
    /\ api = NoneObj
    /\ handles = <<>> /\ scopes = <<>>
    /\ call = NoCall /\ pc = "idle" /\ depth = 0
    /\ localCalls = 0 /\ remoteCalls = 0
    /\ lastExit = NoExit

\* __init__(self, host="localhost", port=9191, ssl=False, verbose=False):
\* stores the four values, derives the URL from them, and sets api to None.
Construct(args) ==
    /\ ctor = args
    /\ host = Arg(args, "host", DefaultHost)
    /\ port = Arg(args, "port", DefaultPort)
    /\ ssl = Arg(args, "ssl", DefaultSsl)
    /\ verbose = Arg(args, "verbose", DefaultVerbose)
    /\ url = EndpointUrl(host, port, ssl)
    /\ api = NoneObj
    /\ handles = <<>> /\ scopes = <<>>
    /\ call = NoCall /\ pc = "idle" /\ depth = 0
    /\ localCalls = 0 /\ remoteCalls = 0
    /\ lastExit = NoExit

\* ServerCommandProxy()
InitDefault == Construct(NoArgs)

\* ServerCommandProxy() or ServerCommandProxy("printsrv", 9192, True, True)
Init ==
    \/ InitDefault
    \/ Construct([host |-> "printsrv", port |-> 9192, ssl |-> "True", verbose |-> "True"])

\* Variant: __enter__ creates a ServerProxy only when self.api is None and
\* otherwise hands out the one it has.
EnterReusesHandle ==
    /\ pc = "idle"
    /\ Len(scopes) < MaxHandles
    /\ IF api = NoneObj
       THEN /\ handles' = Append(handles, NewHandle(url, verbose))
            /\ api' = Method(Len(handles) + 1)
       ELSE UNCHANGED <<handles, api>>
    /\ scopes' = Append(scopes, [status |-> "body", value |-> EnterValue(api'), exc |-> "none"])
    /\ UNCHANGED <<ctor, config, call, pc, depth, localCalls, remoteCalls, lastExit>>

\* __enter__: creates a ServerProxy, stores its api namespace in self.api
\* and returns it through the contextmanager decorator.
Enter ==
    /\ pc = "idle"
    /\ Len(handles) < MaxHandles
    /\ LET h == Len(handles) + 1 IN
       /\ handles' = Append(handles, NewHandle(url, verbose))
       /\ api' = Method(h)
       /\ scopes' = Append(scopes, [status |-> "body", value |-> EnterValue(Method(h)), exc |-> "none"])
    /\ UNCHANGED <<ctor, config, call, pc, depth, localCalls, remoteCalls, lastExit>>

\* The scopes whose block is running.
InBody == {s \in 1..Len(scopes) : scopes[s].status = "body"}

\* The block of scope s raises: the error of the forwarding call it just
\* made, or an error of the caller's own code.
BlockRaises(s, e) ==
    /\ pc = "idle"
    /\ s \in InBody
    /\ \/ e = "UserError"
       \/ call.scope = s /\ IsError(call.outcome) /\ e = call.outcome.kind
    /\ scopes' = [scopes EXCEPT ![s].status = "raising", ![s].exc = e]
    /\ UNCHANGED <<ctor, config, api, handles, call, pc, depth, localCalls, remoteCalls, lastExit>>

\* Variant: __exit__ puts back the handle that was active before the scope
\* was entered (None for the first scope).
ExitRestoresPrevious(s) ==
    /\ pc = "idle"
    /\ s \in 1..Len(scopes)
    /\ scopes[s].status \in {"body", "raising"}
    /\ handles' = HandlesAfterExit(handles, api)
    /\ scopes' = [scopes EXCEPT ![s].status = "exited", ![s].exc = "none"]
    /\ lastExit' = [scope |-> s, raised |-> CloseAttempt(api), exc |-> scopes[s].exc,
                    propagated |-> IF CloseAttempt(api) # "none" THEN CloseAttempt(api)
                                   ELSE scopes[s].exc]
    /\ api' = (IF s > 1 THEN Method(s - 1) ELSE NoneObj)
    /\ UNCHANGED <<ctor, config, call, pc, depth, localCalls, remoteCalls>>

\* Variant: __exit__ also forgets the endpoint (self.url = None).
ExitClearsUrl(s) ==
    /\ pc = "idle"
    /\ s \in 1..Len(scopes)
    /\ scopes[s].status \in {"body", "raising"}
    /\ handles' = HandlesAfterExit(handles, api)
    /\ scopes' = [scopes EXCEPT ![s].status = "exited", ![s].exc = "none"]
    /\ lastExit' = [scope |-> s, raised |-> CloseAttempt(api), exc |-> scopes[s].exc,
                    propagated |-> IF CloseAttempt(api) # "none" THEN CloseAttempt(api)
                                   ELSE scopes[s].exc]
    /\ url' = None
    /\ UNCHANGED <<ctor, host, port, ssl, verbose, api, call, pc, depth, localCalls, remoteCalls>>

\* __exit__(exc_type, exc_value, exc_traceback) at the end of scope s.
Exit(s) ==
    /\ pc = "idle"
    /\ s \in 1..Len(scopes)
    /\ scopes[s].status \in {"body", "raising"}
    /\ LET err == CloseAttempt(api) IN
       /\ handles' = HandlesAfterExit(handles, api)
       /\ scopes' = [scopes EXCEPT ![s].status = "exited", ![s].exc = "none"]
       /\ lastExit' = [scope |-> s, raised |-> err,
                       exc |-> scopes[s].exc,
                       propagated |-> IF err # "none" THEN err
                                      ELSE IF ExitSuppresses THEN "none"
                                      ELSE scopes[s].exc]
    /\ UNCHANGED <<ctor, config, api, call, pc, depth, localCalls, remoteCalls>>

\* proxy.__exit__(None, None, None) called on its own, outside a with block.
ExitDirect ==
    /\ pc = "idle"
    /\ LET err == CloseAttempt(api) IN
       /\ handles' = HandlesAfterExit(handles, api)
       /\ lastExit' = [scope |-> 0, raised |-> err,
                       exc |-> "none", propagated |-> err]
    /\ UNCHANGED <<ctor, config, api, scopes, call, pc, depth, localCalls, remoteCalls>>

\* Variant: after the server acknowledges a request the client asks it for
\* the task status before returning.
InvokePolls(obj, name, args, base) ==
    /\ UNCHANGED <<pc, depth>>
    /\ IF obj.type # "_Method"
       THEN /\ call' = [base EXCEPT !.outcome = Raised("AttributeError")]
            /\ UNCHANGED <<handles, remoteCalls>>
       ELSE LET h == obj.handle
                sent == [base EXCEPT !.sentName = name, !.sentArgs = args, !.handle = h]
            IN  IF \E i \in 1..Len(args) : ~CanMarshal(handles[h], args[i])
                THEN /\ call' = [sent EXCEPT !.outcome = Raised("TypeError")]
                     /\ UNCHANGED <<handles, remoteCalls>>
                ELSE \E reply \in StubReplies(remoteCalls + 1) :
                     /\ remoteCalls' = remoteCalls + (IF reply.kind = "return" THEN 2 ELSE 1)
                     /\ handles' = [handles EXCEPT ![h].conn =
                                       IF reply.kind = "ProtocolError" THEN "idle" ELSE "open"]
                     /\ call' = [sent EXCEPT !.sentName = (IF reply.kind = "return"
                                                           THEN "api.getTaskStatus" ELSE name),
                                             !.received = TRUE,
                                             !.roundTrips = (IF reply.kind = "return" THEN 2 ELSE 1),
                                             !.reply = reply,
                                             !.outcome = ForwardResult(reply)]

\* Variant: a call made while self.api is None creates a ServerProxy on
\* demand and sends the request through it.
InvokeConnectsOnDemand(obj, name, args, base) ==
    /\ UNCHANGED <<pc, depth>>
    /\ LET h == IF obj.type # "_Method" THEN Len(handles) + 1 ELSE obj.handle
           hs == IF obj.type # "_Method" THEN Append(handles, NewHandle(url, verbose))
                 ELSE handles
           sent == [base EXCEPT !.sentName = name, !.sentArgs = args, !.handle = h]
       IN  IF \E i \in 1..Len(args) : ~CanMarshal(hs[h], args[i])
           THEN /\ call' = [sent EXCEPT !.outcome = Raised("TypeError")]
                /\ handles' = hs
                /\ UNCHANGED remoteCalls
           ELSE \E reply \in StubReplies(remoteCalls + 1) :
                /\ remoteCalls' = remoteCalls + 1
                /\ handles' = [hs EXCEPT ![h].conn =
                                  IF reply.kind = "ProtocolError" THEN "idle" ELSE "open"]
                /\ call' = [sent EXCEPT !.received = TRUE, !.roundTrips = 1,
                                        !.reply = reply,
                                        !.outcome = ForwardResult(reply)]

\* Variant: the result of a request is kept, and a repeat of that request is
\* answered from it without a round trip.
InvokeCached(obj, name, args, base) ==
    /\ UNCHANGED <<pc, depth>>
    /\ IF obj.type # "_Method"
       THEN /\ call' = [base EXCEPT !.outcome = Raised("AttributeError")]
            /\ UNCHANGED <<handles, remoteCalls>>
       ELSE LET h == obj.handle
                sent == [base EXCEPT !.sentName = name, !.sentArgs = args, !.handle = h]
            IN  IF call.received /\ call.sentName = name /\ call.sentArgs = args
                THEN /\ call' = [sent EXCEPT !.outcome = call.outcome]
                     /\ UNCHANGED <<handles, remoteCalls>>
                ELSE \E reply \in StubReplies(remoteCalls + 1) :
                     /\ remoteCalls' = remoteCalls + 1
                     /\ handles' = [handles EXCEPT ![h].conn =
                                       IF reply.kind = "ProtocolError" THEN "idle" ELSE "open"]
                     /\ call' = [sent EXCEPT !.received = TRUE, !.roundTrips = 1,
                                             !.reply = reply,
                                             !.outcome = ForwardResult(reply)]

\* obj.<name>(*args): an attribute lookup on obj, then, on a _Method, one
\* marshalled request through the ServerProxy the _Method is bound to.
Invoke(obj, name, args, base) ==
    /\ UNCHANGED <<pc, depth>>
    /\ IF obj.type # "_Method"
       THEN /\ call' = [base EXCEPT !.outcome = Raised("AttributeError")]
            /\ UNCHANGED <<handles, remoteCalls>>
       ELSE LET h == obj.handle
                sent == [base EXCEPT !.sentName = name, !.sentArgs = args, !.handle = h]
            IN  IF \E i \in 1..Len(args) : ~CanMarshal(handles[h], args[i])
                THEN /\ call' = [sent EXCEPT !.outcome = Raised("TypeError")]
                     /\ UNCHANGED <<handles, remoteCalls>>
                ELSE \E reply \in StubReplies(remoteCalls + 1) :
                     /\ remoteCalls' = remoteCalls + 1
                     /\ handles' = [handles EXCEPT ![h].conn =
                                       IF reply.kind = "ProtocolError" THEN "idle" ELSE "open"]
                     /\ call' = [sent EXCEPT !.received = TRUE, !.roundTrips = 1,
                                             !.reply = reply,
                                             !.outcome = ForwardResult(reply)]

\* A behaviour exercises one method of the catalogue, up to MaxCalls times.
SameMethod(m) == call.method \in {"", m.name}

\* proxy.<m>(...) called with the arguments c from scope s (0: outside any
\* with block).
Forward(m, c, s) ==
    /\ pc = "idle"
    /\ localCalls < MaxCalls
    /\ SameMethod(m)
    /\ s \in InBody \cup {0}
    /\ localCalls' = localCalls + 1
    /\ LET bound == Bind(m, c)
           base == [NoCall EXCEPT !.method = m.name, !.choice = c, !.scope = s,
                                  !.via = "proxy", !.bound = bound]
       IN  IF m.target = "self"
           THEN \* return self.<callee>(...): the method calls a method of the proxy
                /\ call' = [base EXCEPT !.outcome = [kind |-> "pending", value |-> ""]]
                /\ pc' = "recursing"
                /\ depth' = 1
                /\ UNCHANGED <<handles, remoteCalls>>
           ELSE Invoke(api, RemoteName(m), WireArgs(m, bound), base)
    /\ UNCHANGED <<ctor, config, api, scopes, lastExit>>

\* One more frame of a method that calls itself.
Recurse ==
    /\ pc = "recursing"
    /\ depth < RecursionLimit
    /\ depth' = depth + 1
    /\ UNCHANGED <<ctor, config, api, handles, scopes, call, pc, localCalls, remoteCalls, lastExit>>

\* The interpreter stops the recursion with RecursionError.
RecursionOverflow ==
    /\ pc = "recursing"
    /\ depth >= RecursionLimit
    /\ call' = [call EXCEPT !.outcome = Raised("RecursionError")]
    /\ pc' = "idle"
    /\ depth' = 0
    /\ UNCHANGED <<ctor, config, api, handles, scopes, localCalls, remoteCalls, lastExit>>

\* with proxy as p: p.<m>(...): the block of scope s invokes a procedure on
\* the value __enter__ handed to it.
InvokeOnValue(s, m, c) ==
    /\ pc = "idle"
    /\ localCalls < MaxCalls
    /\ SameMethod(m)
    /\ s \in InBody
    /\ \A i \in 1..Len(c) : c[i] # Omitted
    /\ localCalls' = localCalls + 1
    /\ Invoke(scopes[s].value, "api." \o m.name, c,
              [NoCall EXCEPT !.method = m.name, !.choice = c, !.scope = s,
                             !.via = "value", !.bound = c])
    /\ UNCHANGED <<ctor, config, api, scopes, lastExit>>

\* The errors a block lets escape: one of the caller's own code, or the
\* remote fault of the forwarding call it just made.
BlockErrors == {"UserError", "Fault"}

\* The methods the connection lifecycle is exercised with.
Exercised ==
    {addAdminAccessGroup, disablePrinter, getConfigValue, getUserProperty,
     installLicense}

\* The connection lifecycle, with calls of the exercised methods.
Next ==
    \/ Enter
    \/ \E s \in 1..MaxHandles : Exit(s)
    \/ ExitDirect
    \/ \E s \in 1..MaxHandles, e \in BlockErrors : BlockRaises(s, e)
    \/ \E m \in Exercised, s \in 0..MaxHandles : \E c \in Calls(m) : Forward(m, c, s)
    \/ \E m \in Exercised, s \in 1..MaxHandles : \E c \in Calls(m) : InvokeOnValue(s, m, c)
    \/ Recurse
    \/ RecursionOverflow

Spec == Init /\ [][Next]_vars

\* Every method of the catalogue, called on a proxy constructed with the
\* defaults, before and inside acquired scopes.
NextCatalogue ==
    \/ Enter
    \/ \E m \in Catalogue, s \in 0..MaxHandles : \E c \in Calls(m) : Forward(m, c, s)
    \/ Recurse
    \/ RecursionOverflow

SpecCatalogue == InitDefault /\ [][NextCatalogue]_vars

\* ServerCommandProxy(host, port, ssl, verbose), for every combination of
\* the arguments.
CtorArgs ==
    {NoArgs}
    \cup {[host |-> h] : h \in Hosts}
    \cup {[host |-> h, port |-> p, ssl |-> s, verbose |-> v] :
              h \in Hosts, p \in Ports, s \in SslValues, v \in VerboseValues}

InitConfig == \E args \in CtorArgs : Construct(args)

\* The lifecycle of a proxy constructed with any arguments.
NextConfig ==
    \/ Enter
    \/ \E s \in 1..MaxHandles : Exit(s)
    \/ ExitDirect
    \/ \E s \in 0..MaxHandles : \E c \in Calls(getConfigValue) : Forward(getConfigValue, c, s)

SpecConfig == InitConfig /\ [][NextConfig]_vars

\* proxy.host = h, proxy.port = p, proxy.ssl = s: host, port and ssl are
\* plain instance attributes, and a caller can assign them.
SetAttribute ==
    /\ pc = "idle"
    /\ \/ \E h \in Hosts : host' = h /\ UNCHANGED <<port, ssl>>
       \/ \E p \in Ports : port' = p /\ UNCHANGED <<host, ssl>>
       \/ \E b \in SslValues : ssl' = b /\ UNCHANGED <<host, port>>
    /\ UNCHANGED <<ctor, verbose, url, api, handles, scopes, call, pc, depth, localCalls,
                   remoteCalls, lastExit>>

\* A proxy whose attributes the caller assigns between acquisitions.
NextAttributes ==
    \/ SetAttribute
    \/ Enter

SpecAttributes == InitConfig /\ [][NextAttributes]_vars

(***************************************************************************)
(* Properties                                                              *)
(***************************************************************************)
\* The record of the catalogue with the given name.
MethodNamed(n) == CHOOSE m \in Catalogue : m.name = n

\* A forwarding call made through the proxy has run to completion.
Completed == call.via = "proxy" /\ pc = "idle" /\ call.outcome.kind \notin {"none", "pending"}

\* Every argument of the last call is one xmlrpc can marshal.
ArgsMarshallable == \A i \in 1..Len(call.bound) : call.bound[i] \notin Unmarshallable

\* The argument the last call passed for parameter p of method m.
ArgFor(m, p) == call.sentArgs[IndexOf(m.wire, p)]

\* C1: on every exit path of a scoped acquisition (normal or raising) the
\* handle acquired by the matching enter is released, its transport closed,
\* exactly once.
C1_ReleasedExactlyOnce ==
    \A s \in 1..Len(scopes) : scopes[s].status = "exited" => handles[s].closes = 1

\* C2: exit never propagates an error to its caller, in every state from
\* which it is called.
C2_ExitNeverRaises == lastExit.raised = "none"

\* C3: the value enter hands to the acquiring scope is the namespace object
\* the proxy stores as its active api.
C3_EnterReturnsApi ==
    \A s \in 1..Len(scopes) : s = Len(scopes) => scopes[s].value = api

\* C4: the proxy holds no handle after construction, one after enter, and
\* none again once the scope has exited.
C4_NoHandleAfterExit ==
    (\A s \in 1..Len(scopes) : scopes[s].status = "exited") => api = NoneObj

\* C5: every forwarding method, called inside an acquired scope, invokes
\* exactly one remote procedure, and its name is the local method's name.
C5_OneRemoteProcedureOfSameName ==
    (Completed /\ call.scope # 0 /\ ArgsMarshallable)
        => (call.roundTrips = 1 /\ call.sentName = "api." \o call.method)

\* C6: every forwarding call made inside an acquired scope ends with the
\* remote's result or the remote/transport failure of its round trip.
C6_EndsWithRoundTripOutcome ==
    (Completed /\ call.scope # 0 /\ ArgsMarshallable)
        => (call.received /\ call.outcome = call.reply
            /\ call.outcome.kind \in {"return", "Fault", "ProtocolError"})

\* C7: adjustUserAccountBalance(token, user, adjustment, accountName, comment)
\* passes (token, user, adjustment, comment, accountName), whichever of
\* accountName and comment the caller supplies.
C7_AdjustUserAccountBalanceOrder ==
    (call.via = "proxy" /\ call.method = "adjustUserAccountBalance" /\ call.sentName # "")
        => call.sentArgs =
              <<call.choice[1], call.choice[2], call.choice[3],
                IF call.choice[5] = Omitted THEN None ELSE call.choice[5],
                IF call.choice[4] = Omitted THEN None ELSE call.choice[4]>>

C7_Witness ==
    /\ call.method = "adjustUserAccountBalance" /\ call.received
    /\ call.choice[4] # Omitted /\ call.choice[5] = Omitted

\* C8: on a proxy constructed with the defaults and entered, a balance
\* adjustment with a negative amount and neither comment nor account name
\* reaches the remote as (token, userName, adjustment, None, None), and the
\* proxy returns the stub's boolean unchanged.
C8_EndToEndAdjustment ==
    (/\ call.via = "proxy" /\ call.method = "adjustUserAccountBalance"
     /\ call.choice[3] = "-5.0" /\ call.choice[4] = Omitted /\ call.choice[5] = Omitted
     /\ call.received)
        => /\ call.sentName = "api.adjustUserAccountBalance"
           /\ call.sentArgs = <<"'authToken'", "'userName'", "-5.0", None, None>>
           /\ handles[call.handle].uri = "http://localhost:9191/rpc/api/xmlrpc"
           /\ call.reply.kind = "return" => call.outcome = call.reply

C8_Witness ==
    /\ call.method = "adjustUserAccountBalance" /\ call.received
    /\ call.choice[3] = "-5.0" /\ call.choice[4] = Omitted /\ call.choice[5] = Omitted
    /\ call.reply = [kind |-> "return", value |-> "True"]
    /\ call.outcome = [kind |-> "return", value |-> "True"]

C10_FixedArity ==
    (call.via = "proxy" /\ call.received)
        => Len(call.sentArgs) = Len(MethodNamed(call.method).params)

C10_Witness ==
    /\ call.method = "setUserAccountBalance" /\ call.received
    /\ call.choice[4] = Omitted /\ call.choice[5] = Omitted
    /\ Len(call.sentArgs) = 5

\* C11: every forwarding method returns exactly the value the remote
\* procedure returned for that call.
C11_ReturnsRemoteValue ==
    (call.via = "proxy" /\ call.received /\ call.reply.kind = "return")
        => call.outcome = call.reply

C11_Witness ==
    /\ call.method = "getUserAccountBalance" /\ call.received
    /\ call.reply = [kind |-> "return", value |-> "1"]
    /\ call.outcome = [kind |-> "return", value |-> "1"]

\* C12: when the remote raises a fault or the transport fails, the
\* forwarding method raises that same error after exactly one remote
\* attempt.
C12_RaisesRemoteErrorOnce ==
    (call.via = "proxy" /\ call.received /\ call.reply.kind \in {"Fault", "ProtocolError"})
        => /\ call.outcome = call.reply
           /\ call.roundTrips = 1
           /\ remoteCalls <= localCalls

C12_Witness ==
    /\ call.method = "getPrinterCostSimple" /\ call.received
    /\ call.reply.kind = "Fault" /\ call.outcome.kind = "Fault"
    /\ localCalls = 1 /\ remoteCalls = 1

\* C13: an error raised inside the block of a scope is not suppressed by
\* exit: the same error reaches the caller of the block.
C13_BlockErrorPropagates ==
    (lastExit.scope # 0 /\ lastExit.exc # "none")
        => lastExit.propagated = lastExit.exc

C13_Witness ==
    /\ lastExit.scope # 0 /\ lastExit.exc = "Fault" /\ lastExit.propagated = "Fault"
    /\ scopes[lastExit.scope].status = "exited"

\* C14: for every host, port and boolean ssl the endpoint URL of a
\* constructed proxy is https://{host}:{port}/rpc/api/xmlrpc when ssl is
\* true and http://{host}:{port}/rpc/api/xmlrpc otherwise.
C14_EndpointUrlOfConstruction ==
    /\ ssl = "True" => url = "https://" \o host \o ":" \o ToString(port) \o "/rpc/api/xmlrpc"
    /\ ssl = "False" => url = "http://" \o host \o ":" \o ToString(port) \o "/rpc/api/xmlrpc"

C14_Witness ==
    /\ host = "printsrv" /\ port = 9192 /\ ssl = "True"
    /\ url = "https://printsrv:9192/rpc/api/xmlrpc"
    /\ api = NoneObj

\* C15: in every reachable state the endpoint URL equals the value derived
\* from the current host, port and ssl attributes, also when enter binds a
\* handle to it.
C15_UrlFollowsAttributes == url = EndpointUrl(host, port, ssl)

\* C16: no operation of the proxy (enter, exit, a forwarding call that
\* succeeds or fails) changes host, port, ssl, verbose or the endpoint URL.
C16_ConfigImmutable == [][config' = config]_vars

C16_Witness ==
    /\ host = "printsrv" /\ port = 9192 /\ ssl = "True" /\ verbose = "True"
    /\ url = "https://printsrv:9192/rpc/api/xmlrpc"
    /\ lastExit.scope # 0 /\ call.outcome.kind = "Fault" /\ localCalls = MaxCalls

\* C17: each enter creates a handle distinct from the handles of all
\* earlier enters, for repeated and for nested use.
C17_EnterCreatesDistinctHandle ==
    /\ Len(handles) = Len(scopes)
    /\ \A s, t \in 1..Len(scopes) :
           s # t => scopes[s].value.handle # scopes[t].value.handle
    /\ Len(scopes) > 0 => api.handle = scopes[Len(scopes)].value.handle

C17_Witness ==
    /\ Len(scopes) = 2
    /\ scopes[1].status = "exited" /\ scopes[2].status = "body"
    /\ scopes[1].value.handle = 1 /\ scopes[2].value.handle = 2

\* C18: a forwarding call issued from one scope is never sent through the
\* handle another scope acquired.
C18_CallUsesOwnHandle ==
    (call.via = "proxy" /\ call.scope # 0 /\ call.handle # 0)
        => call.handle = scopes[call.scope].value.handle

\* C19: enter creates the handle bound to the proxy's endpoint URL, with
\* the proxy's verbose flag, and with allow_none set whatever the
\* configuration.
C19_HandleConfiguration ==
    \A h \in 1..Len(handles) :
        /\ handles[h].uri = url
        /\ handles[h].verbose = verbose
        /\ handles[h].allow_none = "True"

C19_Witness ==
    /\ Len(handles) = 2 /\ verbose = "True" /\ ssl = "1" /\ host = "printsrv"
    /\ handles[2] = [uri |-> "http://printsrv:9191/rpc/api/xmlrpc", verbose |-> "True",
                     allow_none |-> "True", conn |-> "idle", closes |-> 0]

\* The read-only methods among the exercised ones.
ReadOnly == {"getConfigValue", "getUserProperty"}

\* C20: a read-only call repeated with the same arguments makes a round
\* trip of its own and returns that round trip's reply (two counter replies
\* differ); every read-only call on an entered proxy adds one remote call.
C20_NoCaching ==
    [][(localCalls' = localCalls + 1 /\ call'.via = "proxy" /\ call'.method \in ReadOnly
        /\ api # NoneObj)
          => /\ remoteCalls' = remoteCalls + 1
             /\ call'.received
             /\ call'.outcome = call'.reply
             /\ (/\ call.received /\ call.method = call'.method /\ call.choice = call'.choice
                 /\ call.reply.value = ToString(remoteCalls)
                 /\ call'.reply.value = ToString(remoteCalls'))
                    => call'.outcome # call.outcome]_vars

C20_Witness ==
    /\ call.method = "getUserProperty" /\ call.received
    /\ localCalls = 2 /\ remoteCalls = 2
    /\ call.outcome = [kind |-> "return", value |-> "2"]

\* C21: a forwarding method does not validate an enumerated-value parameter
\* (overdraft mode, a property value such as the cost model, the quota
\* period): whatever string the caller supplies, documented or not, is not
\* rejected locally and reaches the remote unchanged in that parameter's
\* position.
C21_EnumeratedForwardedVerbatim ==
    (Completed /\ call.sentName # "")
        => LET m == MethodNamed(call.method) IN
           \A i \in 1..Len(m.params) :
               (m.params[i] \in EnumeratedParams /\ call.choice[i] # Omitted)
                   => /\ call.received
                      /\ call.outcome = call.reply
                      /\ ArgFor(m, m.params[i]) = call.choice[i]

C21_Witness ==
    /\ call.method = "setUserOverdraftMode" /\ call.received
    /\ call.choice[3] = "'bogus'"
    /\ call.sentArgs = <<"'authToken'", "'userName'", "'bogus'">>

\* C22: for every remote call a forwarding method makes, the first wire
\* argument is the authentication token the caller passed to the method.
C22_TokenFirst ==
    (call.via = "proxy" /\ call.sentName # "")
        => /\ call.choice[1] # Omitted
           /\ MethodNamed(call.method).params[1] = "authToken"
           /\ call.sentArgs[1] = call.choice[1]

C22_Witness ==
    /\ call.method = "adjustUserAccountBalanceByGroup" /\ call.received
    /\ call.sentArgs[1] = "'authToken'" /\ call.sentArgs # call.bound

\* performGroupSync, performUserAndGroupSync, performOnlineBackup
SyncAndBackup == {"performGroupSync", "performUserAndGroupSync", "performOnlineBackup"}

\* C23: a sync or backup operation makes one remote call, of its own name,
\* and returns with the server's answer to it; the client makes no
\* getTaskStatus call of its own.
C23_FireAndForget ==
    [][(localCalls' = localCalls + 1 /\ call'.method \in SyncAndBackup)
          => /\ pc' = "idle"
             /\ remoteCalls' <= remoteCalls + 1
             /\ call'.received
                   => /\ remoteCalls' = remoteCalls + 1
                      /\ call'.roundTrips = 1
                      /\ call'.sentName = "api." \o call'.method
                      /\ call'.outcome = call'.reply]_vars

C23_Witness ==
    /\ call.method = "performOnlineBackup" /\ call.received
    /\ localCalls = 1 /\ remoteCalls = 1 /\ call.roundTrips = 1
    /\ call.sentName = "api.performOnlineBackup"
    /\ call.outcome = [kind |-> "return", value |-> "True"]

\* C24: a proxy constructed with no arguments has host "localhost", port
\* 9191, ssl false, verbose false and no active handle; a proxy constructed
\* with arguments holds exactly the values it was given, whatever they are.
C24_ConstructionStoresArguments ==
    /\ DOMAIN ctor = {}
          => host = "localhost" /\ port = 9191 /\ ssl = "False" /\ verbose = "False"
    /\ "host" \in DOMAIN ctor => host = ctor.host
    /\ "port" \in DOMAIN ctor => port = ctor.port
    /\ "ssl" \in DOMAIN ctor => ssl = ctor.ssl
    /\ "verbose" \in DOMAIN ctor => verbose = ctor.verbose
    /\ Len(handles) = 0 => api = NoneObj /\ scopes = <<>>

C24_Witness ==
    /\ DOMAIN ctor = {}
    /\ host = "localhost" /\ port = 9191 /\ ssl = "False" /\ verbose = "False"
    /\ api = NoneObj /\ handles = <<>> /\ localCalls = 0

\* The integers a caller passes for disableMins.
IntegerValues == {"30"}

\* C25: disablePrinter treats disableMins as a required integer: every
\* disablePrinter call made on an entered proxy places (token, serverName,
\* printerName, disableMins) on the wire, disableMins being an integer the
\* caller supplied.
C25_DisableMinsRequiredInteger ==
    (Completed /\ call.method = "disablePrinter" /\ call.sentName # "")
        => /\ call.choice[4] # Omitted
           /\ call.bound[4] \in IntegerValues
           /\ call.received
           /\ call.sentArgs = <<call.choice[1], call.choice[2], call.choice[3], call.choice[4]>>

Reordering ==
    {"adjustUserAccountBalance", "adjustUserAccountBalanceByGroup",
     "adjustUserAccountBalanceByGroupUpTo", "setGroupQuota", "setPrinterProperty"}

Count(seq, v) == Cardinality({i \in 1..Len(seq) : seq[i] = v})

\* C27: a forwarding method that makes a remote call passes each of its
\* parameters exactly once; it passes them in declaration order unless it is
\* one of the five methods of Reordering, and each of those five passes
\* them in another order.
C27_DeclarationOrderExceptFive ==
    (call.via = "proxy" /\ call.sentName # "")
        => LET m == MethodNamed(call.method) IN
           /\ Len(call.sentArgs) = Len(m.params)
           /\ \A i \in 1..Len(call.bound) :
                  Count(call.sentArgs, call.bound[i]) = Count(call.bound, call.bound[i])
           /\ call.method \notin Reordering => call.sentArgs = call.bound
           /\ (call.method \in Reordering /\ \A i \in 1..Len(call.choice) : call.choice[i] # Omitted)
                  => call.sentArgs # call.bound

C27_Witness ==
    /\ call.method = "setGroupQuota" /\ call.received
    /\ call.bound = <<"'authToken'", "'groupName'", "'quotaAmount'",
                      "'quotaMaxAccumulation'", "'DAILY'">>
    /\ call.sentArgs = <<"'authToken'", "'groupName'", "'quotaAmount'", "'DAILY'",
                         "'quotaMaxAccumulation'">>

C29_NeverEnteredFailsLocally ==
    [][(Len(handles) = 0 /\ call' # call)
          => /\ remoteCalls' = 0 /\ ~call'.received /\ call'.roundTrips = 0
             /\ call'.sentName = ""
             /\ pc' = "idle" => IsError(call'.outcome)
             /\ api' = NoneObj /\ api' = api
             /\ config' = config /\ handles' = handles /\ scopes' = scopes]_vars

C29_Witness ==
    /\ Len(handles) = 0 /\ api = NoneObj
    /\ localCalls = 1 /\ remoteCalls = 0
    /\ call.method = "addAdminAccessGroup" /\ call.outcome = Raised("AttributeError")

\* C30: the URL has the https scheme only when the ssl argument is the
\* boolean True; for every other value, the truthy 1 and 'yes' included, it
\* is the http URL.
C30_HttpsOnlyForBooleanTrue ==
    LET s == Arg(ctor, "ssl", "False")
        rest == "://" \o host \o ":" \o ToString(port) \o "/rpc/api/xmlrpc"
    IN  /\ url = "https" \o rest => s = "True"
        /\ s # "True" => url = "http" \o rest

C30_Witness ==
    /\ "ssl" \in DOMAIN ctor /\ ctor.ssl = "'yes'"
    /\ url = "http://printsrv:9192/rpc/api/xmlrpc"
    /\ Len(handles) = 1 /\ handles[1].uri = "http://printsrv:9192/rpc/api/xmlrpc"

====
